---- MODULE Spec2Model ----
(***************************************************************************)
(* sentinel-guard: the policy-driven sink guard.                           *)
(*                                                                         *)
(* The model follows src/src/sentinel: policy.py (policy model and         *)
(* loader), validators.py (validate_value), sinks.py (the interceptors     *)
(* installed by apply_patches and _enforce) and middleware.py (the         *)
(* request binder and the taint_flow context variable), and the handlers   *)
(* of src/fastapi_app_example/app.py, which append their label to the flow *)
(* list.                                                                   *)
(*                                                                         *)
(* A string is the sequence of its characters, so that Len is len(); a     *)
(* character without a printable form goes by its name ("NUL", "acute",    *)
(* "e_acute").  The messages the package builds are sequences of their     *)
(* fixed phrases and of the characters of the values formatted into them.  *)
(* Python's None is the                                                    *)
(* value None.  A Python dict / YAML mapping is a function whose DOMAIN is  *)
(* its key set; an ordered dict is a sequence of entries.  A Python        *)
(* exception leaving a function is a result record with field exc.         *)
(***************************************************************************)
EXTENDS Integers, Sequences, FiniteSets, TLC

VARIABLES
    policies,   \* the Policy objects the application holds (arguments of apply_patches)
    installs,   \* the number of apply_patches calls that have returned
    binding,    \* binding[t]: the wrappers installed on target t, outermost first; <<>> = the original
    dflt,       \* the list object that is the default of the taint_flow ContextVar
    own,        \* own[c]: the list object created by the latest dispatch in context c
    bound,      \* bound[c]: the object taint_flow resolves to in c: "default" or "own"
    last,       \* the latest sink invocation: its inputs and everything observable of it
    tainted_json,   \* tainted_json[c]: request.state.tainted_json of the request handled in c
    api,        \* the latest call of a function of the package's API: its arguments and outcome
    _schema_cache,  \* validators._schema_cache: the dict schema_ref -> Draft7Validator
    frames,     \* frames[t]: the _load_schema call of thread t: where it is, and its locals
    applied,    \* the policies passed to the apply_patches calls begun so far, in call order
    conn,       \* the connection the application got from its latest sqlite3.connect call
    task        \* task[c]: where context c is inside dispatch and inside an interceptor

vars == <<policies, installs, binding, dflt, own, bound, last, tainted_json, api,
          _schema_cache, frames, applied, conn, task>>

None == "None"
EmptyMap == [k \in {} |-> None]

\* Optional values whose type is not a string (numbers, lists, objects) are
\* held as a sequence of length 0 (None) or 1 (the value).
Nothing == <<>>
Some(v) == <<v>>
IsSome(o) == Len(o) = 1
The(o) == o[1]

\* dict access: "key in d", d.get(key) for string values, d.get(key) for
\* other values, d.get(key, default)
Has(d, k) == k \in DOMAIN d
Get(d, k) == IF Has(d, k) THEN d[k] ELSE None
GetOpt(d, k) == IF Has(d, k) THEN Some(d[k]) ELSE Nothing
GetOr(d, k, default) == IF Has(d, k) THEN d[k] ELSE default

\* Python truthiness of a string-or-None value
Truthy(s) == s # None /\ s # ""

\* A function's outcome: the value it returns, or the exception that leaves it.
Return(v) == [exc |-> None, val |-> v]
Raise(kind) == [exc |-> kind, val |-> Nothing]
IsRaise(r) == r.exc # None

(***************************************************************************)
(* policy.py: the policy model                                             *)
(***************************************************************************)

\* class ViolationMode(str, Enum)
ViolationMode == {"block", "warn", "sanitize"}

\* str.lower() on the mode strings that occur in policy documents
Lower(s) ==
    CASE s = "WARN" -> "warn"
      [] s = "Block" -> "block"
      [] OTHER -> s

\* The typed parameter objects built by _parse_validators.
StringValidatorParams(p) ==
    [cls |-> "StringValidatorParams",
     max_len |-> GetOpt(p, "max_len"),
     min_len |-> GetOpt(p, "min_len"),
     match_regex |-> GetOpt(p, "match_regex"),
     allow_charset |-> GetOpt(p, "allow_charset"),
     deny_regex |-> GetOpt(p, "deny_regex"),
     deny_substrings |-> GetOr(p, "deny_substrings", <<>>)]

PathValidatorParams(p) ==
    [cls |-> "PathValidatorParams",
     allowed_roots |-> GetOr(p, "allowed_roots", <<>>),
     deny_subdirectories |-> GetOr(p, "deny_subdirectories", FALSE)]

JsonSchemaValidatorParams(ref) ==
    [cls |-> "JsonSchemaValidatorParams", schema_ref |-> ref]

\* A parameter object that is a plain mapping (what validators.py reads
\* with params.get).
DictParams(p) == [cls |-> "dict", items |-> p]

ValidatorDef(vid, vtype, params) == [id |-> vid, type |-> vtype, params |-> params]

OnViolationDef(mode, message) == [mode |-> mode, message |-> message]

SinkDef(sid, function, require, on_violation) ==
    [id |-> sid, function |-> function, require |-> require,
     on_violation |-> on_violation]

Policy(version, defaults_mode, validators, sinks) ==
    [version |-> version, defaults |-> [mode |-> defaults_mode],
     validators |-> validators, sinks |-> sinks]

\* out[key] = value on an insertion-ordered dict held as a sequence of
\* <<key, value>> entries: an existing key keeps its position.
RECURSIVE DictSet(_, _, _)
DictSet(entries, key, value) ==
    IF entries = <<>> THEN << <<key, value>> >>
    ELSE IF Head(entries)[1] = key THEN << <<key, value>> >> \o Tail(entries)
    ELSE <<Head(entries)>> \o DictSet(Tail(entries), key, value)

\* dict.get(key) on such a dict
RECURSIVE DictGet(_, _)
DictGet(entries, key) ==
    IF entries = <<>> THEN Nothing
    ELSE IF Head(entries)[1] = key THEN Some(Head(entries)[2])
    ELSE DictGet(Tail(entries), key)

\* Policy.get_sink_for_function: the first sink, in insertion order, whose
\* function is func_fqn; None when there is none.
RECURSIVE SinkForFunction(_, _)
SinkForFunction(sinks, func_fqn) ==
    IF sinks = <<>> THEN Nothing
    ELSE IF Head(sinks)[2].function = func_fqn THEN Some(Head(sinks)[2])
    ELSE SinkForFunction(Tail(sinks), func_fqn)

get_sink_for_function(policy, func_fqn) == SinkForFunction(policy.sinks, func_fqn)

\* a loop body that takes every item as it comes
parse_validator_item_unchecked(it) ==
    Return(ValidatorDef(Get(it, "id"), Get(it, "type"),
                        DictParams(GetOr(it, "params", [t |-> "dict", v |-> EmptyMap]).v)))

\* One item of _parse_validators' loop: the ValidatorDef, or the ValueError.
\* The item's params value carries its YAML type: [t |-> "dict", v |-> mapping]
\* or another type.
ParseValidatorItem(it) ==
    LET vid == Get(it, "id")
        vtype == Get(it, "type")
        params_dict == GetOr(it, "params", [t |-> "dict", v |-> EmptyMap])
    IN  IF ~Truthy(vid) \/ ~Truthy(vtype)
        THEN Raise("ValueError: validator missing id or type")
        ELSE IF params_dict.t # "dict"
        THEN Raise("ValueError: params must be a dictionary")
        ELSE IF vtype = "string"
        THEN Return(ValidatorDef(vid, vtype, StringValidatorParams(params_dict.v)))
        ELSE IF vtype = "path"
        THEN Return(ValidatorDef(vid, vtype, PathValidatorParams(params_dict.v)))
        ELSE IF vtype = "json_schema"
        THEN IF ~Truthy(Get(params_dict.v, "schema_ref"))
             THEN Raise("ValueError: json_schema requires schema_ref")
             ELSE Return(ValidatorDef(vid, vtype,
                             JsonSchemaValidatorParams(params_dict.v["schema_ref"])))
        ELSE Raise("ValueError: unknown validator type")

\* _parse_validators: the dict id -> ValidatorDef, or the first ValueError.
RECURSIVE ParseValidatorsFrom(_, _)
ParseValidatorsFrom(items, out) ==
    IF items = <<>> THEN Return(out)
    ELSE LET v == ParseValidatorItem(Head(items))
         IN  IF IsRaise(v) THEN v
             ELSE ParseValidatorsFrom(Tail(items), DictSet(out, v.val.id, v.val))

_parse_validators(items) == ParseValidatorsFrom(items, <<>>)

\* One item of _parse_sinks' loop: the SinkDef, or the ValueError.  SinkDef has
\* no field for the item's other keys (forbid_functions): they are dropped.
ParseSinkItem(item) ==
    LET on_violation_dict == GetOr(item, "on_violation", EmptyMap)
        mode_str == Get(on_violation_dict, "mode")
        mode == IF Truthy(mode_str) THEN Lower(mode_str) ELSE None
        on_violation ==
            IF DOMAIN on_violation_dict # {}
            THEN Some(OnViolationDef(mode, Get(on_violation_dict, "message")))
            ELSE Nothing
    IN  IF DOMAIN on_violation_dict # {} /\ Truthy(mode_str) /\ mode \notin ViolationMode
        THEN Raise("ValueError: invalid mode")
        ELSE Return(SinkDef(Get(item, "id"), Get(item, "function"),
                            GetOr(item, "require", <<>>), on_violation))

RECURSIVE ParseSinksFrom(_, _)
ParseSinksFrom(items, out) ==
    IF items = <<>> THEN Return(out)
    ELSE LET s == ParseSinkItem(Head(items))
         IN  IF IsRaise(s) THEN s
             ELSE ParseSinksFrom(Tail(items), DictSet(out, s.val.id, s.val))

_parse_sinks(items) == ParseSinksFrom(items, <<>>)

\* load_policy on the parsed document data: the Policy, or the ValueError.
load_policy(data) ==
    LET version == GetOr(data, "version", 1)
        defaults_mode == Get(GetOr(data, "defaults", EmptyMap), "mode")
        validators == _parse_validators(GetOr(data, "validators", <<>>))
        sinks == _parse_sinks(GetOr(data, "sinks", <<>>))
    IN  IF IsRaise(validators) THEN validators
        ELSE IF IsRaise(sinks) THEN sinks
        ELSE Return(Policy(version, defaults_mode, validators.val, sinks.val))

(***************************************************************************)
(* Values: what the application passes to a guarded operation              *)
(***************************************************************************)

\* A string is the sequence of its characters, one sequence element per
\* character.  "NUL" names the null character, "acute" the combining acute
\* accent and "e_acute" the precomposed letter; every other element is the
\* character itself.
\*
\* A Python value carries its type t, its text v (the characters of a str or
\* bytes object, and of str(value) for an int, bool, float, None, PathLike or
\* Request object; the keys of a dict, each a string) and its items (the
\* elements of a list or tuple, the values() of a dict).
StrV(chars) == [t |-> "str", v |-> chars, items |-> <<>>]
BytesV(chars) == [t |-> "bytes", v |-> chars, items |-> <<>>]
ListV(items) == [t |-> "list", v |-> <<>>, items |-> items]
TupleV(items) == [t |-> "tuple", v |-> <<>>, items |-> items]
\* a dict holds its entries in order, each a key (a str) with its value
DictV(keys, values) ==
    [t |-> "dict", v |-> <<>>,
     items |-> [i \in 1..Len(keys) |-> [t |-> "item", v |-> keys[i], items |-> <<values[i]>>]]]
\* dict.values()
DictValues(d) == [i \in 1..Len(d.items) |-> d.items[i].items[1]]
OtherV(type, chars) == [t |-> type, v |-> chars, items |-> <<>>]

\* the quote repr() puts around a string: " when the string holds ' and no ",
\* and ' otherwise
ReprQuote(s) ==
    IF (\E i \in 1..Len(s) : s[i] = "'") /\ ~(\E i \in 1..Len(s) : s[i] = "\"")
    THEN "\"" ELSE "'"

\* repr() of one character inside the quotes: the backslash and the quote in
\* use are escaped, the null character is written \x00
ReprChar(c, quote) ==
    IF c = "\\" THEN <<"\\", "\\">>
    ELSE IF c = quote THEN <<"\\", c>>
    ELSE IF c = "NUL" THEN <<"\\", "x", "0", "0">>
    ELSE <<c>>

RECURSIVE ReprChars(_, _)
ReprChars(s, quote) ==
    IF s = <<>> THEN <<>> ELSE ReprChar(Head(s), quote) \o ReprChars(Tail(s), quote)

\* repr(s) of a str
ReprStr(s) == <<ReprQuote(s)>> \o ReprChars(s, ReprQuote(s)) \o <<ReprQuote(s)>>

\* repr(value); ReprJoined writes the elements of a list or tuple and the
\* key: value entries of a dict, separated by ", "
RECURSIVE Repr(_)
RECURSIVE ReprJoined(_)
Repr(x) ==
    CASE x.t = "str" -> ReprStr(x.v)
      [] x.t = "bytes" -> <<"b">> \o ReprStr(x.v)
      [] x.t = "list" -> <<"[">> \o ReprJoined(x.items) \o <<"]">>
      [] x.t = "tuple" ->
             <<"(">> \o ReprJoined(x.items)
                 \o (IF Len(x.items) = 1 THEN <<",">> ELSE <<>>) \o <<")">>
      [] x.t = "dict" -> <<"{">> \o ReprJoined(x.items) \o <<"}">>
      [] x.t = "item" -> ReprStr(x.v) \o <<":", " ">> \o Repr(x.items[1])
      [] x.t = "PosixPath" ->
             <<"P", "o", "s", "i", "x", "P", "a", "t", "h", "(">> \o ReprStr(x.v) \o <<")">>
      [] OTHER -> x.v
ReprJoined(items) ==
    IF items = <<>> THEN <<>>
    ELSE Repr(Head(items))
         \o (IF Tail(items) = <<>> THEN <<>> ELSE <<",", " ">> \o ReprJoined(Tail(items)))

\* str(value): the text of a str, repr(value) for bytes, lists, tuples and
\* dicts, and the text the type prints for every other value
Str(x) == IF x.t \in {"bytes", "list", "tuple", "dict"} THEN Repr(x) ELSE x.v

\* bytes.decode() with the default encoding: the same text
Decode(x) == x.v

\* "sub in s" on strings
Contains(sub, s) ==
    \E i \in 1..(Len(s) + 1) :
        /\ i + Len(sub) - 1 <= Len(s)
        /\ SubSeq(s, i, i + Len(sub) - 1) = sub

\* the substrings of s
Substrings(s) ==
    {SubSeq(s, i, j) : i \in 1..(Len(s) + 1), j \in 0..Len(s)}

(***************************************************************************)
(* validators.py                                                           *)
(***************************************************************************)

\* unicodedata.normalize("NFC", value): a base letter followed by its
\* combining mark composes into the precomposed letter.
RECURSIVE _normalize_text(_)
_normalize_text(value) ==
    IF Len(value) < 2 THEN value
    ELSE IF value[1] = "e" /\ value[2] = "acute"
    THEN <<"e_acute">> \o _normalize_text(SubSeq(value, 3, Len(value)))
    ELSE <<value[1]>> \o _normalize_text(Tail(value))

\* The (ok, reason) pair a validator returns.
Accept == [ok |-> TRUE, msg |-> <<"ok">>]
Reject(msg) == [ok |-> FALSE, msg |-> msg]

\* params.get(key) of _validate_string and _validate_path: params is read as
\* a mapping; an object of another class has no attribute get.
ParamsHaveGet(params) == params.cls = "dict"

\* the first entry of deny_substrings that occurs in s, if any
RECURSIVE FirstDenied(_, _)
FirstDenied(deny_substrings, s) ==
    IF deny_substrings = <<>> THEN Nothing
    ELSE IF Contains(Head(deny_substrings), s) THEN Some(Head(deny_substrings))
    ELSE FirstDenied(Tail(deny_substrings), s)

\* A regular expression is held as its pattern text src and its language
\* lang (a set of strings); allow_charset as the set of characters of the
\* class, empty for the empty string.
Regex(src, lang) == [src |-> src, lang |-> lang]
ReSearch(re, s) == \E sub \in Substrings(s) : sub \in re.lang
ReFullmatch(re, s) == s \in re.lang
CharsetFullmatch(charset, s) == Len(s) >= 1 /\ \A i \in 1..Len(s) : s[i] \in charset

\* "if deny_regex", "if regex", "if allow_charset": an absent or empty
\* pattern switches the check off
RegexGiven(o) == IsSome(o) /\ The(o).src # <<>>
CharsetGiven(o) == IsSome(o) /\ The(o) # {}

\* the checks of _validate_string on the normalized string s, in their order
StringChecks(s, p) ==
    LET max_len == GetOpt(p, "max_len")
        min_len == GetOpt(p, "min_len")
        regex == GetOpt(p, "regex")
        allow_charset == GetOpt(p, "allow_charset")
        deny_regex == GetOpt(p, "deny_regex")
        deny_substrings == GetOr(p, "deny_substrings", <<>>)
        sub == FirstDenied(deny_substrings, s)
    IN  IF IsSome(max_len) /\ Len(s) > The(max_len)
        THEN Reject(<<"length>", ToString(The(max_len))>>)
        ELSE IF IsSome(min_len) /\ Len(s) < The(min_len)
        THEN Reject(<<"length<", ToString(The(min_len))>>)
        ELSE IF RegexGiven(deny_regex) /\ ReSearch(The(deny_regex), s)
        THEN Reject(<<"matches forbidden pattern">>)
        ELSE IF IsSome(sub)
        THEN Reject(<<"contains forbidden substring">> \o ReprStr(The(sub)))
        ELSE IF CharsetGiven(allow_charset) /\ ~CharsetFullmatch(The(allow_charset), s)
        THEN Reject(<<"contains disallowed characters">>)
        ELSE IF RegexGiven(regex) /\ ~ReFullmatch(The(regex), s)
        THEN Reject(<<"regex mismatch">>)
        ELSE Accept

_validate_string(value, params) ==
    IF ~ParamsHaveGet(params) THEN Raise("AttributeError")
    ELSE Return(StringChecks(_normalize_text(value), params.items))

\* ---- pathlib: a path string, "/" separating its components

\* the file system the process runs in: its working directory /w and its
\* symbolic links (path components -> target components): /u/l -> /e
Cwd == << <<"w">> >>
FsLinks == (<< <<"u">>, <<"l">> >> :> << <<"e">> >>)

\* the components of a path string ("/" separates, empty components vanish)
RECURSIVE SplitFrom(_, _, _)
SplitFrom(s, i, cur) ==
    IF i > Len(s) THEN (IF cur = <<>> THEN <<>> ELSE <<cur>>)
    ELSE IF s[i] = "/"
    THEN (IF cur = <<>> THEN <<>> ELSE <<cur>>) \o SplitFrom(s, i + 1, <<>>)
    ELSE SplitFrom(s, i + 1, Append(cur, s[i]))

Parts(s) == SplitFrom(s, 1, <<>>)
IsAbsolute(s) == Len(s) >= 1 /\ s[1] = "/"

\* str() of an absolute path given by its components
RECURSIVE PathStr(_)
PathStr(parts) ==
    IF parts = <<>> THEN <<"/">>
    ELSE IF Len(parts) = 1 THEN <<"/">> \o parts[1]
    ELSE PathStr(SubSeq(parts, 1, Len(parts) - 1)) \o <<"/">> \o parts[Len(parts)]

\* Path.resolve() on components: "." vanishes, ".." steps up, a symbolic
\* link is replaced by its target as soon as it is reached
RECURSIVE ResolveFrom(_, _)
ResolveFrom(done, todo) ==
    IF todo = <<>> THEN done
    ELSE LET c == Head(todo)
             step == IF c = <<".">> THEN done
                     ELSE IF c = <<".", ".">>
                     THEN (IF done = <<>> THEN <<>> ELSE SubSeq(done, 1, Len(done) - 1))
                     ELSE Append(done, c)
         IN  ResolveFrom(IF step \in DOMAIN FsLinks THEN FsLinks[step] ELSE step,
                         Tail(todo))

\* Path(text).resolve(): the absolute components, or the ValueError an
\* embedded null character raises
Resolve(text) ==
    IF \E i \in 1..Len(text) : text[i] = "NUL" THEN Raise("ValueError")
    ELSE Return(ResolveFrom(<<>>, (IF IsAbsolute(text) THEN <<>> ELSE Cwd) \o Parts(text)))

\* path.relative_to(root_path) succeeds
IsRelativeTo(path, root_path) ==
    /\ Len(root_path) <= Len(path)
    /\ SubSeq(path, 1, Len(root_path)) = root_path

\* path.parent
Parent(path) == IF path = <<>> THEN <<>> ELSE SubSeq(path, 1, Len(path) - 1)

\* repr of the configured list in the last message: ['r1', 'r2']
RECURSIVE ReprItems(_)
ReprItems(roots) ==
    IF roots = <<>> THEN <<>>
    ELSE ReprStr(Head(roots))
         \o (IF Tail(roots) = <<>> THEN <<>> ELSE <<",", " ">> \o ReprItems(Tail(roots)))

ReprList(roots) == <<"[">> \o ReprItems(roots) \o <<"]">>

\* one round of _validate_path's loop, root_path being the resolved root (or
\* the exception its resolution raised): the verdict, if this root gives one
PathStep(path, root_path, deny_subdirectories) ==
    IF IsRaise(root_path) \/ ~IsRelativeTo(path, root_path.val) THEN Nothing
    ELSE IF deny_subdirectories /\ Parent(path) # root_path.val
    THEN Some(Reject(<<"subdirectories disallowed under">> \o PathStr(root_path.val)))
    ELSE Some(Accept)

\* the loop of _validate_path over the configured roots
RECURSIVE PathLoop(_, _, _, _)
PathLoop(path, roots, deny_subdirectories, all) ==
    IF roots = <<>>
    THEN Reject(<<"path not under allowed roots:">> \o ReprList(all))
    ELSE IF IsSome(PathStep(path, Resolve(Head(roots)), deny_subdirectories))
    THEN The(PathStep(path, Resolve(Head(roots)), deny_subdirectories))
    ELSE PathLoop(path, Tail(roots), deny_subdirectories, all)

\* _validate_path once the path is resolved (or its resolution raised)
PathChecks(path, must_be_under, deny_subdirectories) ==
    IF IsRaise(path) THEN Reject(<<"path invalid:", "embedded null byte">>)
    ELSE IF must_be_under = <<>> THEN Reject(<<"no allowed roots configured">>)
    ELSE PathLoop(path.val, must_be_under, deny_subdirectories, must_be_under)

_validate_path(value, params) ==
    IF ~ParamsHaveGet(params) THEN Raise("AttributeError")
    ELSE Return(PathChecks(Resolve(value),
                           GetOr(params.items, "must_be_under", <<>>),
                           GetOr(params.items, "deny_subdirectories", FALSE)))

\* ---- json schemas

\* the schema files of the process: what open(ref) and json.load give.
\* s.json holds the schema {} (<<"S">>), u.json the schema {"type": "object"}
\* (<<"U">>), bad.json the text "{"; no other file exists.
SchemaRefs == {"s.json", "u.json", "missing.json", "bad.json"}
ReadSchema(ref) ==
    CASE ref = "s.json" -> Return(<<"S">>)
      [] ref = "u.json" -> Return(<<"U">>)
      [] ref = "bad.json" -> Raise("JSONDecodeError")
      [] OTHER -> Raise("FileNotFoundError")

\* str(e) of the exception open or json.load raised on ref
ExcText(exc, ref) ==
    IF exc = "JSONDecodeError"
    THEN <<"Expecting property name enclosed in double quotes: line 1 column 2 (char 1)">>
    ELSE <<"[Errno 2] No such file or directory:", "'", ref, "'">>

\* Draft7Validator(schema): a new object each time, here known by the call
\* that made it
Draft7Validator(schema, t, n) == [schema |-> schema, by |-> <<t, n>>]

\* validator.iter_errors(obj): the schema {} has no error to report, the
\* schema {"type": "object"} one for every obj that is no dict
iter_errors(validator, obj) ==
    IF validator.schema = <<"U">> /\ obj.t # "dict"
    THEN << [path |-> <<>>,
             message |-> Repr(obj) \o <<" is not of type ", "'object'">>] >>
    ELSE <<>>

\* a lookup that finds nothing
cache_never_hits(cache, ref) == FALSE

\* "ref in _schema_cache"
CacheHit(cache, ref) == IsSome(DictGet(cache, ref))

\* the outcome r of a call together with the _schema_cache it leaves behind
WithCache(r, cache) == [exc |-> r.exc, val |-> r.val, cache |-> cache]

\* _load_schema(ref) run from its first line to its last on the dict `cache`:
\* the validator (the cached one, or a new one that is stored) or the
\* exception of open / json.load, which leaves the dict as it was
_load_schema(ref, cache) ==
    IF CacheHit(cache, ref) THEN WithCache(Return(The(DictGet(cache, ref))), cache)
    ELSE IF IsRaise(ReadSchema(ref)) THEN WithCache(ReadSchema(ref), cache)
    ELSE WithCache(Return(Draft7Validator(ReadSchema(ref).val, "main", 0)),
                   DictSet(cache, ref, Draft7Validator(ReadSchema(ref).val, "main", 0)))

\* the try block of _validate_json once _load_schema returned or raised
JsonChecks(obj, ref, loaded) ==
    IF IsRaise(loaded)
    THEN Reject(<<"json schema load/validate error:">> \o ExcText(loaded.exc, ref))
    ELSE IF iter_errors(loaded.val, obj) # <<>>
    THEN Reject(<<"json schema error at", "[]", ":">> \o iter_errors(loaded.val, obj)[1].message)
    ELSE Accept

\* _validate_json reads params.get("schema_ref") before its try block
_validate_json(obj, params, cache) ==
    IF ~ParamsHaveGet(params) THEN WithCache(Raise("AttributeError"), cache)
    ELSE IF ~Truthy(Get(params.items, "schema_ref"))
    THEN WithCache(Return(Reject(<<"no schema_ref provided">>)), cache)
    ELSE WithCache(Return(JsonChecks(obj, params.items["schema_ref"],
                                     _load_schema(params.items["schema_ref"], cache))),
                   _load_schema(params.items["schema_ref"], cache).cache)

\* a validate_value that accepts what an unknown validator is asked about
validate_value_unknown_ok(policy, validator_id, value, cache) ==
    LET vdef == DictGet(policy.validators, validator_id)
    IN  IF ~IsSome(vdef) THEN WithCache(Return(Accept), cache)
        ELSE WithCache(_validate_string(Str(value), The(vdef).params), cache)

\* validate_value on the dict `cache`: the (ok, reason) pair, or the exception
\* that leaves it, and the dict afterwards
validate_value(policy, validator_id, value, cache) ==
    LET vdef == DictGet(policy.validators, validator_id)
    IN  IF ~IsSome(vdef)
        THEN WithCache(Return(Reject(<<"unknown validator", validator_id>>)), cache)
        ELSE LET vtype == The(vdef).type
                 params == The(vdef).params
             IN  CASE vtype = "string" ->
                          WithCache(_validate_string(Str(value), params), cache)
                   [] vtype = "path" ->
                          WithCache(_validate_path(Str(value), params), cache)
                   [] vtype = "json_schema" -> _validate_json(value, params, cache)
                   [] OTHER ->
                          WithCache(Return(Reject(<<"unknown validator type", vtype>>)),
                                    cache)

\* validate_json_by_id(policy, validator_id, obj)
validate_json_by_id(policy, validator_id, obj, cache) ==
    validate_value(policy, validator_id, obj, cache)

(***************************************************************************)
(* sinks.py: flow tracking and _enforce                                    *)
(***************************************************************************)

\* _record_flowpoint on the list object taint_flow.get() returns: the label
\* is appended unless it is the last entry.  The test and the append are two
\* statements on a list that other threads may hold: `seen` is what the list
\* held when the test was evaluated, `stack` what it holds when the append
\* runs; they are equal when no other thread appended in between.
_record_flowpoint(seen, stack, name) ==
    IF seen = <<>> \/ seen[Len(seen)] # name THEN Append(stack, name) ELSE stack

\* _get_flow: a copy of the list
_get_flow(stack) == stack

\* The list taint_flow.get() resolves to when the k-th record of an
\* interceptor call is written.  _get_flow reads the list again for every
\* record, so a label another thread appended since the call's own append is
\* in that record.  reads[k] is the list as the k-th read found it; a read
\* that `reads` does not list found the list as the call's append left it.
FlowRead(reads, k, flow) == IF k \in DOMAIN reads THEN reads[k] ELSE flow

\* the reads that remain after n records
ReadsAfter(reads, n) == SubSeq(reads, n + 1, Len(reads))

\* the strings one positional or keyword argument contributes
RECURSIVE StringsOfItems(_)
StringsOfItems(items) ==
    IF items = <<>> THEN <<>>
    ELSE LET x == Head(items)
         IN  (IF x.t = "str" THEN <<x>>
              ELSE IF x.t = "bytes" THEN <<StrV(Decode(x))>>
              ELSE <<>>) \o StringsOfItems(Tail(items))

StringsOfArg(a) ==
    IF a.t = "str" THEN <<a>>
    ELSE IF a.t = "bytes" THEN <<StrV(Decode(a))>>
    ELSE IF a.t \in {"list", "tuple"} THEN StringsOfItems(a.items)
    ELSE <<>>

RECURSIVE StringsOfArgs(_)
StringsOfArgs(args) ==
    IF args = <<>> THEN <<>>
    ELSE StringsOfArg(Head(args)) \o StringsOfArgs(Tail(args))

\* _strings_from_args(*args, **kwargs); kwargs is kwargs.values() in order
_strings_from_args(args, kwargs) == StringsOfArgs(args) \o StringsOfArgs(kwargs)

\* an effective mode that looks at policy.defaults only
effective_mode_of_defaults(policy, sink) ==
    IF Truthy(policy.defaults.mode) /\ Lower(policy.defaults.mode) \in ViolationMode
    THEN Lower(policy.defaults.mode)
    ELSE "block"

\* the mode _enforce and guarded_open apply to a failed validation
EffectiveMode(policy, sink) ==
    IF IsSome(sink.on_violation) /\ Truthy(The(sink.on_violation).mode)
    THEN The(sink.on_violation).mode
    ELSE LET default_mode_str ==
                 IF Truthy(policy.defaults.mode) THEN policy.defaults.mode ELSE "block"
         IN  IF Lower(default_mode_str) \in ViolationMode
             THEN Lower(default_mode_str)
             ELSE "block"

\* the message of the PolicyViolation
EffectiveMessage(sink, vid, msg) ==
    IF IsSome(sink.on_violation) /\ Truthy(The(sink.on_violation).message)
    THEN <<The(sink.on_violation).message>>
    ELSE <<"violation", vid, ":">> \o msg

\* a log that loses the record
log_nothing(logs, event) == logs

\* logging_utils.log(event): the record is written to stderr (with a
\* timestamp, which the model leaves out); logs is what was written so far
log(logs, event) == Append(logs, event)

\* the record _enforce logs
ViolationRecord(sink_fqn, vid, msg, mode, flow) ==
    [event |-> "violation", sink |-> sink_fqn, validator |-> vid, msg |-> msg,
     mode |-> mode, taint_flow |-> flow]

\* the (vid, s) pairs in the order of _enforce's nested loops
RECURSIVE PairsOf(_, _)
PairsOf(vid, strings) ==
    IF strings = <<>> THEN <<>>
    ELSE << <<vid, Head(strings)>> >> \o PairsOf(vid, Tail(strings))

\* the pairs string by string and, for each string, validator by validator
RECURSIVE pairs_by_string(_, _)
pairs_by_string(require, strings) ==
    IF strings = <<>> THEN <<>>
    ELSE [k \in DOMAIN require |-> <<require[k], Head(strings)>>]
         \o pairs_by_string(require, Tail(strings))

RECURSIVE Pairs(_, _)
Pairs(require, strings) ==
    IF require = <<>> THEN <<>>
    ELSE PairsOf(Head(require), strings) \o Pairs(Tail(require), strings)

\* what a failed validation does next: raise, or go on with the loop
Raises(mode) == mode = "block"

\* What one run of an interceptor's checks leaves behind: the records logged,
\* the validator calls made (with their results), and the exception, if any.
NoChecks(cache) ==
    [logs |-> <<>>, calls |-> <<>>, exc |-> None, message |-> <<>>, cache |-> cache]

\* the validator call _enforce makes on the pair (vid, s), with its result r
ValidatorCall(vid, s, r) ==
    [vid |-> vid, s |-> s, exc |-> r.exc, ok |-> IF IsRaise(r) THEN FALSE ELSE r.val.ok]

\* the "if not ok" branch of _enforce up to its raise: the record is logged
\* and, in block mode, PolicyViolation(message) is raised
Violation(acc, record, mode, message) ==
    IF Raises(mode)
    THEN [acc EXCEPT !.logs = log(@, record), !.exc = "PolicyViolation",
                     !.message = message]
    ELSE [acc EXCEPT !.logs = log(@, record)]

\* one round of _enforce's loop on the pair (vid, s), r being what
\* validate_value returned or raised; the record carries the list as
\* _get_flow finds it when the record is written
EnforceStep(policy, sink, sink_fqn, vid, s, r, flow, reads, acc) ==
    IF IsRaise(r) THEN [acc EXCEPT !.calls = Append(@, ValidatorCall(vid, s, r)),
                                   !.exc = r.exc, !.cache = r.cache]
    ELSE IF r.val.ok THEN [acc EXCEPT !.calls = Append(@, ValidatorCall(vid, s, r)),
                                      !.cache = r.cache]
    ELSE Violation([acc EXCEPT !.calls = Append(@, ValidatorCall(vid, s, r)),
                               !.cache = r.cache],
                   ViolationRecord(sink_fqn, vid, r.val.msg, EffectiveMode(policy, sink),
                                   _get_flow(FlowRead(reads, Len(acc.logs) + 1, flow))),
                   EffectiveMode(policy, sink),
                   EffectiveMessage(sink, vid, r.val.msg))

\* the validation loop of _enforce over the remaining pairs: it ends with the
\* first exception
RECURSIVE EnforceLoop(_, _, _, _, _, _, _)
EnforceLoop(policy, sink, sink_fqn, pairs, flow, reads, acc) ==
    IF pairs = <<>> \/ acc.exc # None THEN acc
    ELSE EnforceLoop(policy, sink, sink_fqn, Tail(pairs), flow, reads,
                     EnforceStep(policy, sink, sink_fqn, Head(pairs)[1], Head(pairs)[2],
                                 validate_value(policy, Head(pairs)[1], Head(pairs)[2],
                                                acc.cache),
                                 flow, reads, acc))

\* _enforce(policy, sink_fqn, strings) run on the flow list `stack` and the
\* dict `cache`: the list as the append of _record_flowpoint left it, and the
\* outcome of the checks, the records written with the lists `reads`
EnforceOn(policy, sink, sink_fqn, strings, flow, reads, cache) ==
    [flow |-> flow,
     out |-> IF ~IsSome(sink) THEN NoChecks(cache)
             ELSE EnforceLoop(policy, The(sink), sink_fqn,
                              Pairs(The(sink).require, strings), flow, reads,
                              NoChecks(cache))]

_enforce(policy, sink_fqn, strings, seen, stack, reads, cache) ==
    EnforceOn(policy, get_sink_for_function(policy, sink_fqn), sink_fqn, strings,
              _record_flowpoint(seen, stack, sink_fqn), reads, cache)

(***************************************************************************)
(* sinks.py: the interceptors apply_patches installs                       *)
(*                                                                         *)
(* A wrapper is the closure apply_patches creates: it holds the policy it  *)
(* was created with and calls an inner callable.  binding[t] lists the     *)
(* wrappers a call of t passes through, outermost first; the original      *)
(* operation follows the last one.                                         *)
(***************************************************************************)

\* The state of one invocation while it passes through the wrappers: the flow
\* list of the calling context, the records logged, the validator calls made,
\* the exception raised, the number of interceptor bodies entered, the number
\* of invocations of the original operation, the Loader handed to the
\* original yaml.load, and the dict validators._schema_cache; seen is what
\* the list held when the test of _record_flowpoint read it.
Start(stack) ==
    [flow |-> stack, seen |-> stack, logs |-> <<>>, calls |-> <<>>, exc |-> None,
     message |-> <<>>, wrappers |-> 0, orig |-> 0, loader |-> None,
     cache |-> _schema_cache]

CallOriginal(acc) == [acc EXCEPT !.orig = @ + 1]

\* guarded_run, guarded_system, GuardedCursor.execute / executemany,
\* guarded_jinja_render, guarded_template_substitute, guarded_requests_get /
\* post, guarded_urlopen: _enforce on the extracted strings, then the inner
\* callable
\* an interceptor body that ran _enforce with result e
AfterEnforce(acc, e) ==
    [acc EXCEPT !.flow = e.flow,
                !.seen = e.flow,
                !.logs = @ \o e.out.logs,
                !.calls = @ \o e.out.calls,
                !.wrappers = @ + 1,
                !.exc = e.out.exc,
                !.message = e.out.message,
                !.cache = e.out.cache]

\* the inner callable is reached unless _enforce raised
RECURSIVE RunEnforced(_, _, _, _, _)
RunEnforced(layers, sink_fqn, strings, reads, acc) ==
    IF acc.exc # None THEN acc
    ELSE IF layers = <<>> THEN CallOriginal(acc)
    ELSE RunEnforced(Tail(layers), sink_fqn, strings, reads,
                     AfterEnforce(acc, _enforce(Head(layers), sink_fqn, strings, acc.seen,
                                                acc.flow,
                                                ReadsAfter(reads, Len(acc.logs)),
                                                acc.cache)))

\* ---- builtins.open

\* Path(str(file)): its components without the "." ones
RECURSIVE DropDots(_)
DropDots(parts) ==
    IF parts = <<>> THEN <<>>
    ELSE (IF Head(parts) = <<".">> THEN <<>> ELSE <<Head(parts)>>) \o DropDots(Tail(parts))

\* the root of a path string: exactly two leading slashes are kept, one or
\* three and more make "/", none makes a relative path
PathRoot(text) ==
    IF ~IsAbsolute(text) THEN <<>>
    ELSE IF Len(text) >= 2 /\ text[2] = "/" /\ (Len(text) = 2 \/ text[3] # "/")
    THEN <<"/", "/">>
    ELSE <<"/">>

PurePath(text) == [root |-> PathRoot(text), parts |-> DropDots(Parts(text))]

\* p.name
PathName(p) == IF p.parts = <<>> THEN <<>> ELSE p.parts[Len(p.parts)]

\* str(p)
RECURSIVE JoinParts(_)
JoinParts(parts) ==
    IF parts = <<>> THEN <<>>
    ELSE IF Len(parts) = 1 THEN parts[1]
    ELSE parts[1] \o <<"/">> \o JoinParts(Tail(parts))

PathText(p) ==
    IF p.root = <<>> /\ p.parts = <<>> THEN <<".">> ELSE p.root \o JoinParts(p.parts)

\* p.suffix: the name from its last "." on, unless that "." leads or ends it
PathSuffix(p) ==
    LET name == PathName(p)
        dots == {i \in 1..Len(name) : name[i] = "."}
        i == IF dots = {} THEN 0 ELSE CHOOSE k \in dots : \A j \in dots : j <= k
    IN  IF 1 < i /\ i < Len(name) THEN SubSeq(name, i, Len(name)) ELSE <<>>

\* the bytecode-cache exemption of guarded_open
IsBytecodeCache(p) ==
    \/ \E i \in 1..Len(p.parts) :
           p.parts[i] = <<"_", "_", "p", "y", "c", "a", "c", "h", "e", "_", "_">>
    \/ PathSuffix(p) = <<".", "p", "y", "c">>

\* an interceptor that takes every mode for a write
write_like_always(mode) == TRUE

\* any(m in mode for m in ("w", "a", "x", "+"))
WriteLike(mode) == \E i \in 1..Len(mode) : mode[i] \in {"w", "a", "x", "+"}

\* the string guarded_open hands to validator vid
OpenTarget(vid, p) == IF vid = "safe_filename" THEN PathName(p) ELSE PathText(p)

\* the record guarded_open logs
OpenRecord(vid, msg, mode, p, flow) ==
    [event |-> "violation", sink |-> "builtins.open", validator |-> vid, msg |-> msg,
     mode |-> mode, basename |-> PathName(p), full_path |-> PathText(p),
     taint_flow |-> flow]

\* one round of guarded_open's loop on validator vid and its target, r being
\* what validate_value returned or raised
OpenStep(policy, sink, p, vid, target, r, flow, acc) ==
    IF IsRaise(r) THEN [acc EXCEPT !.calls = Append(@, ValidatorCall(vid, target, r)),
                                   !.exc = r.exc, !.cache = r.cache]
    ELSE IF r.val.ok THEN [acc EXCEPT !.calls = Append(@, ValidatorCall(vid, target, r)),
                                      !.cache = r.cache]
    ELSE Violation([acc EXCEPT !.calls = Append(@, ValidatorCall(vid, target, r)),
                               !.cache = r.cache],
                   OpenRecord(vid, r.val.msg, EffectiveMode(policy, sink), p,
                              _get_flow(flow)),
                   EffectiveMode(policy, sink),
                   EffectiveMessage(sink, vid, r.val.msg))

\* the validation loop of guarded_open over the remaining validator ids: it
\* ends with the first exception
RECURSIVE OpenLoop(_, _, _, _, _, _)
OpenLoop(policy, sink, p, require, flow, acc) ==
    IF require = <<>> \/ acc.exc # None THEN acc
    ELSE OpenLoop(policy, sink, p, Tail(require), flow,
                  OpenStep(policy, sink, p, Head(require),
                           StrV(OpenTarget(Head(require), p)),
                           validate_value(policy, Head(require),
                                          StrV(OpenTarget(Head(require), p)), acc.cache),
                           flow, acc))

\* the checks of one guarded_open body on the path p
OpenChecksOn(policy, sink, p, mode, flow, cache) ==
    IF ~WriteLike(mode) \/ ~IsSome(sink) \/ IsBytecodeCache(p) THEN NoChecks(cache)
    ELSE OpenLoop(policy, The(sink), p, The(sink).require, flow, NoChecks(cache))

OpenChecks(policy, file, mode, flow, cache) ==
    OpenChecksOn(policy, get_sink_for_function(policy, "builtins.open"),
                 PurePath(Str(file)), mode, flow, cache)

\* a guarded_open body whose checks ended as out
AfterOpenChecks(acc, out) ==
    [acc EXCEPT !.logs = @ \o out.logs,
                !.calls = @ \o out.calls,
                !.wrappers = @ + 1,
                !.exc = out.exc,
                !.message = out.message,
                !.cache = out.cache]

\* the original open is reached unless the checks raised
RECURSIVE RunOpen(_, _, _, _)
RunOpen(layers, file, mode, acc) ==
    IF acc.exc # None THEN acc
    ELSE IF layers = <<>> THEN CallOriginal(acc)
    ELSE RunOpen(Tail(layers), file, mode,
                 AfterOpenChecks(acc, OpenChecks(Head(layers), file, mode, acc.flow,
                                                 acc.cache)))

\* ---- yaml

YamlForbidden == <<"yaml.load is forbidden for security reasons; use yaml.safe_load instead">>

\* forbidden_yaml_load: records the flow point, logs the list as _get_flow
\* then finds it, raises; the original yaml.load when nothing is installed,
\* whose Loader argument is required
RunYamlLoad(layers, loader, reads, acc) ==
    IF layers = <<>>
    THEN IF loader = None THEN [acc EXCEPT !.exc = "TypeError"]
         ELSE [CallOriginal(acc) EXCEPT !.loader = loader]
    ELSE LET flow == _record_flowpoint(acc.seen, acc.flow, "yaml.load")
         IN  [acc EXCEPT
                !.flow = flow,
                !.seen = flow,
                !.logs = log(@, [event |-> "blocked", sink |-> "yaml.load",
                                 reason |-> YamlForbidden,
                                 taint_flow |-> _get_flow(FlowRead(reads, 1, flow))]),
                !.wrappers = @ + 1,
                !.exc = "PolicyViolation",
                !.message = YamlForbidden]

\* kwargs.setdefault("Loader", yaml.SafeLoader) of guarded_safe_load
SafeLoadLoader(loader) == IF loader = None THEN "SafeLoader" ELSE loader

\* guarded_safe_load: the saved original yaml.load with the Loader of kwargs;
\* the original yaml.safe_load when nothing is installed (it takes no Loader
\* keyword)
RunYamlSafeLoad(layers, loader, acc) ==
    IF layers = <<>>
    THEN IF loader = None THEN [CallOriginal(acc) EXCEPT !.loader = "SafeLoader"]
         ELSE [acc EXCEPT !.exc = "TypeError"]
    ELSE [CallOriginal(acc) EXCEPT !.wrappers = @ + 1, !.loader = SafeLoadLoader(loader)]

(***************************************************************************)
(* The policies and the calls the model draws its inputs from              *)
(***************************************************************************)

\* the fully-qualified names _enforce and guarded_open look sinks up by
SinkFqnSeq ==
    <<"builtins.open", "subprocess.run", "os.system", "sqlite3.Cursor.execute",
      "sqlite3.Cursor.executemany", "jinja2.Template.render",
      "string.Template.substitute", "requests.get", "requests.post",
      "urllib.request.urlopen">>

\* validators of a policy document
VSemi ==
    [id |-> "v_semi", type |-> "string",
     params |-> [t |-> "dict", v |-> [deny_substrings |-> << <<";">> >>]]]
VLen ==
    [id |-> "v_len", type |-> "string",
     params |-> [t |-> "dict", v |-> [max_len |-> 2]]]
VSafeFilename ==
    [id |-> "safe_filename", type |-> "string",
     params |-> [t |-> "dict", v |-> [deny_substrings |-> << <<".", ".">>, <<"/">> >>]]]
VPathInUploads ==
    [id |-> "path_in_uploads", type |-> "path",
     params |-> [t |-> "dict",
                 v |-> [allowed_roots |-> << <<"/", "u">> >>,
                        deny_subdirectories |-> TRUE]]]

DocValidators == <<VSemi, VLen, VSafeFilename, VPathInUploads>>

\* one entry of a document's sinks list
SinkItem(sid, function, require, on_violation, forbid) ==
    [id |-> sid, function |-> function, require |-> require]
        @@ (IF on_violation = EmptyMap THEN EmptyMap
            ELSE [on_violation |-> on_violation])
        @@ (IF forbid = <<>> THEN EmptyMap ELSE [forbid_functions |-> forbid])

\* a document with one sink entry per name of fqns, all configured alike
Doc(defaults_mode, on_violation, require, forbid, fqns) ==
    [version |-> 1,
     validators |-> DocValidators,
     sinks |-> [i \in 1..Len(fqns) |->
                    SinkItem(fqns[i], fqns[i], require, on_violation,
                             IF forbid THEN <<fqns[i]>> ELSE <<>>)]]
        @@ (IF defaults_mode = None THEN EmptyMap
            ELSE [defaults |-> [mode |-> defaults_mode]])

BaseRequire == <<"v_semi", "v_len">>

\* defaults.mode, a sink's on_violation and its require list, as the documents
\* of the policies built through the constructors write them
ConstructedSettings ==
    {<<None, EmptyMap, BaseRequire>>,
     <<"warn", EmptyMap, BaseRequire>>,
     <<"WARN", EmptyMap, BaseRequire>>,
     <<"sanitize", EmptyMap, BaseRequire>>,
     <<"bogus", EmptyMap, BaseRequire>>,
     <<"warn", [mode |-> "block"], BaseRequire>>,
     <<None, [mode |-> "warn"], BaseRequire>>,
     <<"warn", [message |-> "denied"], BaseRequire>>,
     <<None, [mode |-> "sanitize", message |-> "denied"], BaseRequire>>,
     <<"bogus", [mode |-> "Block", message |-> "denied"], BaseRequire>>,
     <<None, EmptyMap, <<>> >>,
     <<None, EmptyMap, <<"v_len", "v_semi">> >>,
     <<None, EmptyMap, <<"v_semi", "ghost">> >>,
     <<"warn", EmptyMap, <<"ghost", "v_semi">> >>,
     <<None, EmptyMap, <<"safe_filename", "path_in_uploads">> >>,
     <<"warn", EmptyMap, <<"safe_filename", "path_in_uploads">> >>}

\* the same of the documents load_policy reads
LoadedSettings ==
    {<<None, EmptyMap, BaseRequire>>,
     <<"warn", EmptyMap, BaseRequire>>,
     <<None, EmptyMap, <<"v_semi", "ghost">> >>,
     <<None, EmptyMap, <<"ghost">> >>,
     <<"warn", EmptyMap, <<"ghost">> >>,
     <<"WARN", EmptyMap, <<"ghost">> >>,
     <<"warn", EmptyMap, <<"ghost", "v_semi">> >>,
     <<None, [mode |-> "warn"], <<"ghost">> >>,
     <<"warn", [message |-> "denied"], <<"ghost">> >>,
     <<"bogus", [mode |-> "Block", message |-> "denied"], <<"ghost">> >>,
     <<None, [mode |-> "bogus"], <<"ghost">> >>,
     <<None, EmptyMap, <<"safe_filename", "path_in_uploads">> >>}

\* a document whose second entry for subprocess.run is shadowed by the first
DocShadowed ==
    [version |-> 1,
     validators |-> DocValidators,
     sinks |-> <<SinkItem("first", "subprocess.run", <<"v_semi">>, [mode |-> "warn"], <<>>),
                 SinkItem("second", "subprocess.run", <<"v_len">>, EmptyMap, <<>>)>>]

\* a document whose only sink entry is subprocess.run
DocRunOnly == Doc(None, EmptyMap, BaseRequire, FALSE, <<"subprocess.run">>)

\* documents whose sink entries carry forbid_functions naming their function
DocForbid(require) == Doc(None, EmptyMap, require, TRUE, SinkFqnSeq)

\* The same policy built by the caller through the dataclass constructors,
\* each validator's params a plain mapping under the keys validators.py reads.
ReadKeys(p) ==
    [k \in (DOMAIN p \ {"allowed_roots", "match_regex"})
           \cup (IF Has(p, "allowed_roots") THEN {"must_be_under"} ELSE {})
           \cup (IF Has(p, "match_regex") THEN {"regex"} ELSE {}) |->
        CASE k = "must_be_under" -> p["allowed_roots"]
          [] k = "regex" -> p["match_regex"]
          [] OTHER -> p[k]]

RECURSIVE ConstructValidators(_, _)
ConstructValidators(items, out) ==
    IF items = <<>> THEN out
    ELSE LET it == Head(items)
         IN  ConstructValidators(Tail(items),
                 DictSet(out, it.id,
                         ValidatorDef(it.id, it.type, DictParams(ReadKeys(it.params.v)))))

ConstructedPolicy(data) ==
    LET sinks == _parse_sinks(GetOr(data, "sinks", <<>>))
    IN  IF IsRaise(sinks) THEN sinks
        ELSE Return(Policy(GetOr(data, "version", 1),
                           Get(GetOr(data, "defaults", EmptyMap), "mode"),
                           ConstructValidators(GetOr(data, "validators", <<>>), <<>>),
                           sinks.val))

\* what the application holds of a policy: the document, how the Policy
\* object was made from it, and the object, or the exception its making
\* raised
Made(origin, data, r) ==
    [origin |-> origin, doc |-> data, exc |-> r.exc,
     policy |-> IF IsRaise(r) THEN Nothing ELSE Some(r.val)]
Loaded(data) == Made("load_policy", data, load_policy(data))
Constructed(data) == Made("constructed", data, ConstructedPolicy(data))

PolicyFamily ==
    {Constructed(Doc(s[1], s[2], s[3], FALSE, SinkFqnSeq)) : s \in ConstructedSettings}
    \cup {Loaded(Doc(s[1], s[2], s[3], FALSE, SinkFqnSeq)) : s \in LoadedSettings}
    \cup {Constructed(DocForbid(BaseRequire)), Loaded(DocForbid(<<>>)),
          Constructed(DocRunOnly), Constructed(DocShadowed)}

\* The Policy objects of the process, each known by its position in this
\* table: a wrapper holds a reference to its policy, and so does the state.
RECURSIVE TableOf(_)
TableOf(S) ==
    IF S = {} THEN <<>>
    ELSE LET e == CHOOSE x \in S : TRUE IN <<e>> \o TableOf(S \ {e})

PolicyTable == TableOf(PolicyFamily)
PolicyRefs == DOMAIN PolicyTable

\* the Policy objects the wrappers `layers` hold
PoliciesOf(layers) == [i \in DOMAIN layers |-> The(PolicyTable[layers[i]].policy)]

\* strings
T_a == <<"a">>
T_semi == <<"a", ";">>
T_long == <<"a", "a", "a">>

\* subprocess.run(*args, **kwargs)
RunCalls ==
    {[args |-> <<ListV(<<StrV(T_a), StrV(T_a)>>)>>, kwargs |-> <<>>],
     [args |-> <<StrV(T_semi)>>, kwargs |-> <<OtherV("bool", <<"T", "r", "u", "e">>)>>],
     [args |-> <<ListV(<<StrV(T_long), BytesV(T_semi)>>)>>, kwargs |-> <<StrV(T_a)>>],
     [args |-> <<OtherV("PosixPath", T_a)>>, kwargs |-> <<>>]}

\* os.system(cmd)
SystemCmds == {StrV(T_a), StrV(T_semi), BytesV(T_a), ListV(<<StrV(T_semi)>>)}

\* cursor.execute(sql, parameters) / cursor.executemany(sql, seq_of_parameters)
SqlCalls == {[sql |-> StrV(T_a), parameters |-> <<StrV(T_semi)>>],
             [sql |-> StrV(T_semi), parameters |-> <<>>]}

\* cursor.executescript(sql_script) / connection.executescript(sql_script)
SqlScripts == {[sql |-> StrV(T_a), parameters |-> <<>>],
               [sql |-> StrV(T_semi), parameters |-> <<>>]}

\* id(obj) of an object in hexadecimal: whatever address the interpreter
\* gave it; two of them stand for all
Addresses ==
    {<<"7", "f", "3", "5", "8", "0", "3", "c", "e", "c", "d", "0">>,
     <<"7", "f", "f", "3", "8", "7", "4", "4", "0", "3", "9", "0">>}

\* template.render(*args, **kwargs) on the template object at addr with that
\* source; captured says whether the template was made by the patched
\* Environment.from_string
RenderCalls ==
    {[source |-> T_a, captured |-> TRUE, addr |-> CHOOSE a \in Addresses : TRUE,
      args |-> <<DictV(<< <<"k">>, <<"n">> >>, <<StrV(T_semi), OtherV("int", <<"7">>)>>)>>,
      kwargs |-> <<>>],
     [source |-> T_semi, captured |-> TRUE, addr |-> CHOOSE a \in Addresses : TRUE,
      args |-> <<>>, kwargs |-> <<StrV(T_a)>>]}
    \cup {[source |-> T_semi, captured |-> FALSE, addr |-> a, args |-> <<>>,
            kwargs |-> <<ListV(<<StrV(T_a)>>)>>] : a \in Addresses}

\* string.Template(template).substitute(*args, **kwargs)
SubstituteCalls ==
    {[template |-> T_a, args |-> <<DictV(<< <<"k">> >>, <<StrV(T_semi)>>)>>, kwargs |-> <<>>],
     [template |-> T_semi, args |-> <<>>, kwargs |-> <<OtherV("int", <<"7">>)>>],
     [template |-> T_a, args |-> <<>>, kwargs |-> <<StrV(T_a)>>]}

\* str() of a urllib.request.Request object and of a jinja2 Template made
\* from a string, at the address addr: neither class defines __str__, the
\* text names the class and the address of the object
RequestText(addr) ==
    <<"<", "u", "r", "l", "l", "i", "b", ".", "r", "e", "q", "u", "e", "s",
      "t", ".", "R", "e", "q", "u", "e", "s", "t", " ", "o", "b", "j", "e",
      "c", "t", " ", "a", "t", " ", "0", "x">> \o addr \o <<">">>
TemplateText(addr) ==
    <<"<", "T", "e", "m", "p", "l", "a", "t", "e", " ", "m", "e", "m", "o",
      "r", "y", ":">> \o addr \o <<">">>

\* requests.get(url), requests.post(url), urllib.request.urlopen(url)
Urls == {StrV(T_a), StrV(T_semi)}
UrlopenArgs == Urls \cup {OtherV("Request", RequestText(addr)) : addr \in Addresses}

\* open(file, mode)
OpenCalls ==
    {[file |-> StrV(<<"/", "u", "/", "f">>), mode |-> <<"w">>],
     [file |-> StrV(<<"/", "/", "u", "/", "f">>), mode |-> <<"w">>],
     [file |-> StrV(<<"/", "u", "/", "f">>), mode |-> <<"r">>],
     [file |-> StrV(<<"/", "u", "/", "d", "/", "f">>), mode |-> <<"a", "b">>],
     [file |-> OtherV("PosixPath", <<"/", "u", "/", ".", ".", "/", "e", "/", "a", ";">>),
      mode |-> <<"r", "+">>],
     [file |-> StrV(<<"_", "_", "p", "y", "c", "a", "c", "h", "e", "_", "_", "/", "m", ".",
                      "p", "y", "c">>),
      mode |-> <<"w", "b">>]}

\* the Loader keyword of yaml.load / yaml.safe_load, None when not given
Loaders == {None, "SafeLoader", "UnsafeLoader"}

(***************************************************************************)
(* The state machine                                                       *)
(***************************************************************************)

\* bounds: the longest flow list a guarded call may leave behind
FlowCap == 1
MaxInstalls == 2

\* execution contexts (threads / tasks); MainCtx is the one the sequential
\* specifications run in
Contexts == {"c1", "c2"}
MainCtx == "c1"

\* the module attributes apply_patches assigns unconditionally, and those it
\* assigns only while they still hold the saved original
RebindTargets ==
    {"builtins.open", "subprocess.run", "os.system", "yaml.safe_load", "yaml.load",
     "sqlite3.connect"}
PatchOnceTargets ==
    {"jinja2.Environment.from_string", "jinja2.Template.render",
     "string.Template.substitute", "requests.get", "requests.post",
     "urllib.request.urlopen"}
Targets == RebindTargets \cup PatchOnceTargets

\* a new wrapper that calls whatever the name is bound to at the time
rebind_around_current(layers, entry) == <<entry>> \o layers

\* "builtins.open = guarded_open": the new wrapper calls _ORIG[...], the
\* original saved when sinks.py was imported
Rebind(layers, entry) == <<entry>>

\* "if requests.get is _ORIG['requests.get']: ... requests.get = guarded":
\* installed only over the original
PatchOnce(layers, entry) == IF layers = <<>> THEN <<entry>> ELSE layers

\* taint_flow.get() in context c, and the list objects after the list c sees
\* has become `stack`
FlowOf(c) == IF bound[c] = "own" THEN own[c] ELSE dflt

SetFlow(c, stack) ==
    /\ dflt' = IF bound[c] = "own" THEN dflt ELSE stack
    /\ own' = IF bound[c] = "own" THEN [own EXCEPT ![c] = stack] ELSE own
    /\ bound' = bound

\* the threads that validate against JSON schemas, and a thread that is not
\* inside _load_schema and has not been
Threads == {"t1", "t2"}
NoFrame == [pc |-> "out", ref |-> None, had |-> Nothing, schema |-> Nothing,
            result |-> Nothing, exc |-> None, reads |-> 0, loads |-> 0]

\* no API call made yet
NoCall == [op |-> None, args |-> <<>>, out |-> Return(None)]

\* a context that is outside dispatch and inside no interceptor.
\* pc: "out", "json" (dispatch is suspended in `await request.json()`),
\* "next" (dispatch has called call_next), "handler" (the handler has
\* started); request: the request dispatch was called with; call: the
\* interceptor call the context's thread is inside of; exc: the exception
\* that left dispatch
NoTask == [pc |-> "out", request |-> Nothing, call |-> Nothing, exc |-> None]

NoInvocation ==
    [target |-> None, fqn |-> None, ctx |-> None, layers |-> <<>>, input |-> EmptyMap,
     strings |-> <<>>, flow_before |-> <<>>, seen |-> <<>>, flow |-> <<>>, logs |-> <<>>,
     calls |-> <<>>, exc |-> None, message |-> <<>>, wrappers |-> 0, orig |-> 0,
     loader |-> None, installs |-> 0]

\* the start of an invocation made in context c
StartIn(c) == Start(FlowOf(c))

\* the invocation of `target` in context c that ran through `layers` to
\* `acc`, no other thread running meanwhile.  flow_before is the list as the
\* append of _record_flowpoint found it, seen the list as its test found it,
\* flow the list as the append left it.
Invocation(c, cap, target, fqn, layers, input, strings, acc) ==
    /\ task[c].call = Nothing
    /\ Len(acc.flow) <= cap
    /\ last' = [target |-> target, fqn |-> fqn, ctx |-> c, layers |-> layers,
                input |-> input, strings |-> strings, flow_before |-> FlowOf(c),
                seen |-> FlowOf(c), flow |-> acc.flow, logs |-> acc.logs, calls |-> acc.calls,
                exc |-> acc.exc, message |-> acc.message, wrappers |-> acc.wrappers,
                orig |-> acc.orig, loader |-> acc.loader, installs |-> installs]
    /\ SetFlow(c, acc.flow)
    /\ _schema_cache' = acc.cache
    /\ UNCHANGED <<policies, installs, binding, tainted_json, api, frames, applied, task>>

\* an invocation that returns no connection
Finish(c, cap, target, fqn, layers, input, strings, acc) ==
    /\ Invocation(c, cap, target, fqn, layers, input, strings, acc)
    /\ UNCHANGED conn

Enforced(c, cap, target, fqn, layers, input, strings) ==
    Finish(c, cap, target, fqn, layers, input, strings,
           RunEnforced(PoliciesOf(layers), fqn, strings, <<>>, StartIn(c)))

Init ==
    /\ policies \in {{i} : i \in PolicyRefs}
    /\ installs = 0
    /\ binding = [t \in Targets |-> <<>>]
    /\ dflt = <<>>
    /\ own = [c \in Contexts |-> <<>>]
    /\ bound = [c \in Contexts |-> "default"]
    /\ last = NoInvocation
    /\ tainted_json = [c \in Contexts |-> Nothing]
    /\ api = NoCall
    /\ _schema_cache = <<>>
    /\ frames = [t \in Threads |-> NoFrame]
    /\ applied = <<>>
    /\ conn = Nothing
    /\ task = [c \in Contexts |-> NoTask]

\* apply_patches(policy), with a policy the application holds
ApplyPatches ==
    \E e \in policies :
        /\ PolicyTable[e].exc = None
        /\ installs < MaxInstalls
        /\ installs' = installs + 1
        /\ binding' = [t \in Targets |->
                          IF t \in RebindTargets THEN Rebind(binding[t], e)
                          ELSE PatchOnce(binding[t], e)]
        /\ applied' = Append(applied, e)
        /\ UNCHANGED <<policies, dflt, own, bound, last, tainted_json, api, _schema_cache,
                       frames, conn, task>>

\* the apply_patches call of an application that installs the guard once,
\* when it starts, no other thread running meanwhile
Startup == installs = 0 /\ ApplyPatches

\* the names in the order apply_patches assigns them
InstallOrder ==
    <<"builtins.open", "subprocess.run", "os.system", "yaml.safe_load", "yaml.load",
      "sqlite3.connect", "jinja2.Environment.from_string", "jinja2.Template.render",
      "string.Template.substitute", "requests.get", "requests.post",
      "urllib.request.urlopen">>

\* the names the apply_patches call under way has assigned so far
Assigned == Cardinality({t \in Targets : binding[t] # <<>>})

\* The next assignment of that apply_patches call, other threads running
\* side by side: the call has begun with the first assignment and has
\* returned with the last.  Between two assignments the names assigned so
\* far are intercepted and the others are not.
StartupStep ==
    \E e \in policies :
        /\ PolicyTable[e].exc = None
        /\ installs = 0
        /\ Assigned < Len(InstallOrder)
        /\ LET t == InstallOrder[Assigned + 1]
           IN  binding' = [binding EXCEPT
                              ![t] = IF t \in RebindTargets THEN Rebind(@, e)
                                     ELSE PatchOnce(@, e)]
        /\ applied' = <<e>>
        /\ installs' = IF Assigned + 1 = Len(InstallOrder) THEN 1 ELSE 0
        /\ UNCHANGED <<policies, dflt, own, bound, last, tainted_json, api, _schema_cache,
                       frames, conn, task>>

\* open(file, mode)
Open(c, cap) ==
    \E call \in OpenCalls :
        /\ Finish(c, cap, "builtins.open", "builtins.open", binding["builtins.open"],
                  call, <<>>,
                  RunOpen(PoliciesOf(binding["builtins.open"]), call.file, call.mode,
                          StartIn(c)))

\* subprocess.run(*args, **kwargs)
SubprocessRun(c, cap) ==
    \E call \in RunCalls :
        /\ Enforced(c, cap, "subprocess.run", "subprocess.run",
                    binding["subprocess.run"], call,
                    _strings_from_args(call.args, call.kwargs))

\* os.system(cmd), cmd one of cmds
OsSystemOf(c, cap, cmds) ==
    \E cmd \in cmds :
        /\ Enforced(c, cap, "os.system", "os.system", binding["os.system"], cmd, <<cmd>>)

OsSystem(c, cap) == OsSystemOf(c, cap, SystemCmds)

\* yaml.load(stream, Loader=...), the Loader one of loaders
YamlLoadOf(c, cap, loaders) ==
    \E loader \in loaders :
        /\ Finish(c, cap, "yaml.load", "yaml.load", binding["yaml.load"], loader, <<>>,
                  RunYamlLoad(binding["yaml.load"], loader, <<>>, StartIn(c)))

YamlLoad(c, cap) == YamlLoadOf(c, cap, Loaders)

\* yaml.safe_load(stream, Loader=...)
YamlSafeLoad(c, cap) ==
    \E loader \in Loaders :
        /\ Finish(c, cap, "yaml.safe_load", "yaml.safe_load", binding["yaml.safe_load"],
                  loader, <<>>,
                  RunYamlSafeLoad(binding["yaml.safe_load"], loader, StartIn(c)))

\* conn = sqlite3.connect(database): the original sqlite3.connect returns the
\* real connection; guarded_sqlite_connect opens it and returns it wrapped in
\* a GuardedConnection whose classes close over the policy of the
\* apply_patches call that made the wrapper.  The connection is held as the
\* wrappers it was made by: none for a real connection.
SqliteConnect(c, cap) ==
    /\ Invocation(c, cap, "sqlite3.connect", "sqlite3.connect", binding["sqlite3.connect"],
                  EmptyMap, <<>>,
                  [CallOriginal(StartIn(c)) EXCEPT
                       !.wrappers = Len(binding["sqlite3.connect"])])
    /\ conn' = Some(binding["sqlite3.connect"])

\* conn.cursor().execute(sql, parameters): the cursor of a GuardedConnection
\* is a GuardedCursor, whose execute enforces [sql] under the policy of the
\* connection; the cursor of a real connection is a real cursor
CursorExecute(c, cap) ==
    \E call \in SqlCalls :
        /\ IsSome(conn)
        /\ Enforced(c, cap, "sqlite3.connect", "sqlite3.Cursor.execute",
                    The(conn), call, <<StrV(Str(call.sql))>>)

\* conn.cursor().executemany(sql, seq_of_parameters)
CursorExecutemany(c, cap) ==
    \E call \in SqlCalls :
        /\ IsSome(conn)
        /\ Enforced(c, cap, "sqlite3.connect", "sqlite3.Cursor.executemany",
                    The(conn), call, <<StrV(Str(call.sql))>>)

\* sqlite3.connect(database).cursor().execute(sql, parameters): a connection
\* opened for one statement and not kept; the cursor enforces [sql] under the
\* policy of the sqlite3.connect wrapper installed at the time
SqliteExecute(c, cap) ==
    \E call \in SqlCalls :
        /\ Enforced(c, cap, "sqlite3.connect", "sqlite3.Cursor.execute",
                    binding["sqlite3.connect"], call, <<StrV(Str(call.sql))>>)

\* sqlite3.connect(database).cursor().executemany(sql, seq_of_parameters)
SqliteExecutemany(c, cap) ==
    \E call \in SqlCalls :
        /\ Enforced(c, cap, "sqlite3.connect", "sqlite3.Cursor.executemany",
                    binding["sqlite3.connect"], call, <<StrV(Str(call.sql))>>)

\* a method GuardedCursor / GuardedConnection does not define: __getattr__
\* hands out the bound method of the real cursor / connection, which runs the
\* statement; _enforce is not called and no string is extracted
Delegated(c, cap, method, call) ==
    /\ IsSome(conn)
    /\ Finish(c, cap, "sqlite3.connect", method, The(conn), call, <<>>,
              [CallOriginal(StartIn(c)) EXCEPT !.wrappers = Len(The(conn))])

\* conn.cursor().executescript(sql_script)
CursorExecutescript(c, cap) ==
    \E call \in SqlScripts : Delegated(c, cap, "sqlite3.Cursor.executescript", call)

\* conn.execute(sql, parameters)
ConnectionExecute(c, cap) ==
    \E call \in SqlCalls : Delegated(c, cap, "sqlite3.Connection.execute", call)

\* conn.executemany(sql, seq_of_parameters)
ConnectionExecutemany(c, cap) ==
    \E call \in SqlCalls : Delegated(c, cap, "sqlite3.Connection.executemany", call)

\* conn.executescript(sql_script)
ConnectionExecutescript(c, cap) ==
    \E call \in SqlScripts : Delegated(c, cap, "sqlite3.Connection.executescript", call)

\* str(v) of the values of the mappings among args that are str, int or float
RECURSIVE RenderValues(_)
RenderValues(values) ==
    IF values = <<>> THEN <<>>
    ELSE (IF Head(values).t \in {"str", "int", "float", "bool"}
          THEN <<StrV(Str(Head(values)))>> ELSE <<>>) \o RenderValues(Tail(values))

RECURSIVE RenderArgs(_)
RenderArgs(args) ==
    IF args = <<>> THEN <<>>
    ELSE (IF Head(args).t = "dict" THEN RenderValues(DictValues(Head(args))) ELSE <<>>)
         \o RenderArgs(Tail(args))

\* strings_to_check of guarded_jinja_render
RenderStrings(call) ==
    LET stored == IF call.captured THEN call.source ELSE <<>>
        template_content == IF stored = <<>> THEN TemplateText(call.addr) ELSE stored
    IN  <<StrV(template_content)>> \o RenderArgs(call.args) \o RenderValues(call.kwargs)

\* template.render(*args, **kwargs)
JinjaRender(c, cap) ==
    \E call \in RenderCalls :
        /\ call.captured => binding["jinja2.Environment.from_string"] # <<>>
        /\ Enforced(c, cap, "jinja2.Template.render", "jinja2.Template.render",
                    binding["jinja2.Template.render"], call, RenderStrings(call))

\* str(v) of every value
RECURSIVE StrAll(_)
StrAll(values) ==
    IF values = <<>> THEN <<>>
    ELSE <<StrV(Str(Head(values)))>> \o StrAll(Tail(values))

\* strings_to_check of guarded_template_substitute
SubstituteStrings(call) ==
    <<StrV(call.template)>>
        \o (IF call.args # <<>> /\ Head(call.args).t = "dict"
            THEN StrAll(DictValues(Head(call.args))) ELSE <<>>)
        \o StrAll(call.kwargs)

\* string.Template(template).substitute(*args, **kwargs)
TemplateSubstitute(c, cap) ==
    \E call \in SubstituteCalls :
        /\ Enforced(c, cap, "string.Template.substitute", "string.Template.substitute",
                    binding["string.Template.substitute"], call, SubstituteStrings(call))

\* requests.get(url)
RequestsGet(c, cap) ==
    \E url \in Urls :
        /\ Enforced(c, cap, "requests.get", "requests.get", binding["requests.get"],
                    url, <<StrV(Str(url))>>)

\* requests.post(url)
RequestsPost(c, cap) ==
    \E url \in Urls :
        /\ Enforced(c, cap, "requests.post", "requests.post", binding["requests.post"],
                    url, <<StrV(Str(url))>>)

\* urllib.request.urlopen(url)
Urlopen(c, cap) ==
    \E url \in UrlopenArgs :
        /\ Enforced(c, cap, "urllib.request.urlopen", "urllib.request.urlopen",
                    binding["urllib.request.urlopen"], url, <<StrV(Str(url))>>)

\* The sink guard in a process that serves no request: every guarded
\* operation, called from the main context.
Next ==
    \/ Startup
    \/ Open(MainCtx, FlowCap)
    \/ SubprocessRun(MainCtx, FlowCap)
    \/ OsSystem(MainCtx, FlowCap)
    \/ YamlLoad(MainCtx, FlowCap)
    \/ YamlSafeLoad(MainCtx, FlowCap)
    \/ SqliteExecute(MainCtx, FlowCap)
    \/ SqliteExecutemany(MainCtx, FlowCap)
    \/ JinjaRender(MainCtx, FlowCap)
    \/ TemplateSubstitute(MainCtx, FlowCap)
    \/ RequestsGet(MainCtx, FlowCap)
    \/ RequestsPost(MainCtx, FlowCap)
    \/ Urlopen(MainCtx, FlowCap)

Spec == Init /\ [][Next]_vars

(***************************************************************************)
(* taint.py: tainted strings                                               *)
(*                                                                         *)
(* A value of the taint model carries its type t, its text v (the tokens   *)
(* of a str, of str(value) for an int, the key names of a dict), its items *)
(* (the elements of a list or tuple, the values of a dict) and its tags    *)
(* (the taint tags of a TaintedStr, empty for every other type).           *)
(***************************************************************************)

PlainStr(tokens) == [t |-> "str", v |-> tokens, items |-> <<>>, tags |-> {}]
IntValue(tokens) == [t |-> "int", v |-> tokens, items |-> <<>>, tags |-> {}]
NoneValue == [t |-> "NoneType", v |-> <<"None">>, items |-> <<>>, tags |-> {}]
ListValue(items) == [t |-> "list", v |-> <<>>, items |-> items, tags |-> {}]
TupleValue(items) == [t |-> "tuple", v |-> <<>>, items |-> items, tags |-> {}]
DictValue(keys, values) == [t |-> "dict", v |-> keys, items |-> values, tags |-> {}]

\* TaintedStr(value, tags): a str with a set of tags
TaintedStr(value, tags) == [t |-> "TaintedStr", v |-> value, items |-> <<>>, tags |-> tags]

\* isinstance(x, str): TaintedStr is a subclass of str
IsStr(x) == x.t \in {"str", "TaintedStr"}

\* TaintedStr._coerce(other)
_coerce(self, other) ==
    IF other.t = "TaintedStr" THEN TaintedStr(other.v, self.tags \cup other.tags)
    ELSE TaintedStr(other.v, self.tags)

\* TaintedStr.__add__(other)
__add__(self, other) ==
    TaintedStr(self.v \o _coerce(self, other).v, self.tags \cup _coerce(self, other).tags)

\* The expression a + b.  Python calls type(a).__add__; TaintedStr defines no
\* __radd__, so a str on the left concatenates as str does and returns a str
\* (a TypeError when b is no str).
Concat(a, b) ==
    IF a.t = "TaintedStr" THEN Return(__add__(a, b))
    ELSE IF a.t = "str" /\ IsStr(b) THEN Return(PlainStr(a.v \o b.v))
    ELSE Raise("TypeError")

\* taint(value, *tags)
taint(value, tags) ==
    IF value.t = "str" THEN TaintedStr(value.v, tags)
    ELSE IF value.t = "TaintedStr" THEN TaintedStr(value.v, value.tags \cup tags)
    ELSE value

\* a taint_recursive that tags a top-level string only
taint_top_level(obj, tags) == IF IsStr(obj) THEN taint(obj, tags) ELSE obj

\* a taint_recursive that descends one level only
taint_one_level(obj, tags) ==
    IF obj.t \in {"dict", "list", "tuple"}
    THEN [obj EXCEPT !.items = [i \in DOMAIN obj.items |->
                                    taint_top_level(obj.items[i], tags)]]
    ELSE taint_top_level(obj, tags)

\* is_tainted(value)
is_tainted(value) == value.t = "TaintedStr"

\* taint_recursive(obj, *tags): dict values, list and tuple elements, strings
RECURSIVE taint_recursive(_, _)
taint_recursive(obj, tags) ==
    IF obj.t \in {"dict", "list", "tuple"}
    THEN [obj EXCEPT !.items = [i \in DOMAIN obj.items |->
                                    taint_recursive(obj.items[i], tags)]]
    ELSE IF IsStr(obj) THEN taint(obj, tags)
    ELSE obj

(***************************************************************************)
(* middleware.py: the request binder, and the flow lists of two contexts    *)
(***************************************************************************)

FlowDepth == 3

\* SentinelMiddleware(app): self.tags, by default
MiddlewareTags == {"untrusted", "http"}

\* a JSON body
BodyA == DictValue(<<"name">>, <<PlainStr(<<"a">>)>>)

\* the exceptions `await request.json()` ends with that are instances of
\* Exception; asyncio.CancelledError, raised into the task when it is
\* cancelled while it waits for the body, is a BaseException only
ExceptionClasses == {"JSONDecodeError", "ClientDisconnect"}

\* the request of the flow specification, a JSON request whose body parses:
\* the content-type header, the exception `await request.json()` ends with
\* (None when it returns), the parsed body, and self.tags of the middleware
\* that serves the request
Requests ==
    {[content_type |-> <<"application/json">>, exc |-> None, body |-> BodyA,
      tags |-> MiddlewareTags]}

\* content_type.startswith("application/json")
IsJson(content_type) == content_type # <<>> /\ Head(content_type) = "application/json"

\* SentinelMiddleware.dispatch up to its first suspension, for `request`
\* handled in context c, which serves no request or one whose handler has
\* started: a new list is bound to taint_flow in that context; under a JSON
\* content type dispatch then waits for the body, otherwise it sets
\* tainted_json to None and calls call_next
DispatchBind(c, request) ==
    /\ task[c].pc \in {"out", "handler"}
    /\ task[c].call = Nothing
    /\ own' = [own EXCEPT ![c] = <<"http_request">>]
    /\ bound' = [bound EXCEPT ![c] = "own"]
    /\ IF IsJson(request.content_type)
       THEN /\ task' = [task EXCEPT ![c] = [pc |-> "json", request |-> Some(request),
                                            call |-> Nothing, exc |-> None]]
            /\ tainted_json' = [tainted_json EXCEPT ![c] = Nothing]
       ELSE /\ task' = [task EXCEPT ![c] = [pc |-> "next", request |-> Some(request),
                                            call |-> Nothing, exc |-> None]]
            /\ tainted_json' = [tainted_json EXCEPT ![c] = Some(NoneValue)]
    /\ UNCHANGED <<policies, installs, binding, dflt, last, api, _schema_cache, frames,
                   applied, conn>>

\* dispatch resumed after `await request.json()`: with the body it sets
\* tainted_json, appends to the list it created and calls call_next; an
\* Exception is swallowed, tainted_json is None and call_next is called; any
\* other exception leaves dispatch
DispatchResume(c) ==
    /\ task[c].pc = "json"
    /\ task[c].call = Nothing
    /\ LET request == The(task[c].request)
       IN  IF request.exc = None
           THEN /\ Len(own[c]) < FlowDepth
                /\ tainted_json' = [tainted_json EXCEPT
                                        ![c] = Some(taint_recursive(request.body,
                                                                    request.tags))]
                /\ own' = [own EXCEPT ![c] = Append(@, "middleware:json_parsing")]
                /\ task' = [task EXCEPT ![c].pc = "next"]
           ELSE IF request.exc \in ExceptionClasses
           THEN /\ tainted_json' = [tainted_json EXCEPT ![c] = Some(NoneValue)]
                /\ task' = [task EXCEPT ![c].pc = "next"]
                /\ UNCHANGED own
           ELSE /\ task' = [task EXCEPT ![c].pc = "out", ![c].exc = request.exc]
                /\ UNCHANGED <<own, tainted_json>>
    /\ UNCHANGED <<policies, installs, binding, dflt, bound, last, api, _schema_cache,
                   frames, applied, conn>>

\* the handlers of the example application by the label they append; None
\* for root, which appends nothing
HandlerLabels ==
    {"fastapi_app.upload_file", "fastapi_app.execute_command", "fastapi_app.sql_query",
     "fastapi_app.fetch_url", "fastapi_app.render_template", None}

\* the first statements of a handler of the example application: the label
\* of the handler is appended, whatever the last entry is, to the list
\* taint_flow resolves to
HandlerStart(c, label) ==
    /\ task[c].pc = "next"
    /\ task[c].call = Nothing
    /\ Len(FlowOf(c)) < FlowDepth
    /\ SetFlow(c, IF label = None THEN FlowOf(c) ELSE Append(FlowOf(c), label))
    /\ task' = [task EXCEPT ![c].pc = "handler"]
    /\ UNCHANGED <<policies, installs, binding, last, tainted_json, api, _schema_cache,
                   frames, applied, conn>>

\* the command of the flow specification: the policy's v_semi and v_len both
\* reject it, so that an os.system call logs one record in block mode and
\* two in warn mode
T_semi_long == <<"a", ";", "b">>
FlowCmds == {StrV(T_semi_long)}

\* the policies of the flow specification: v_semi and v_len required of
\* every sink, in block mode (the default) or in warn mode
FlowPolicies ==
    {i \in PolicyRefs :
        PolicyTable[i] \in
            {Constructed(Doc(None, EmptyMap, BaseRequire, FALSE, SinkFqnSeq)),
             Constructed(Doc("warn", EmptyMap, BaseRequire, FALSE, SinkFqnSeq))}}

\* What the interceptor call `call` logs, raises and calls, its records
\* written with the lists call.reads.
Outcome(call) ==
    LET acc == [Start(call.flow_before) EXCEPT !.seen = call.seen]
    IN  IF call.fqn = "yaml.load"
        THEN RunYamlLoad(call.layers, call.input, call.reads, acc)
        ELSE RunEnforced(PoliciesOf(call.layers), call.fqn, call.strings, call.reads, acc)

\* the interceptor call of context c returns or raises
Leave(c, call) ==
    LET acc == Outcome(call)
    IN  /\ last' = [target |-> call.target, fqn |-> call.fqn, ctx |-> c,
                    layers |-> call.layers, input |-> call.input,
                    strings |-> call.strings, flow_before |-> call.flow_before,
                    seen |-> call.seen, flow |-> acc.flow, logs |-> acc.logs,
                    calls |-> acc.calls, exc |-> acc.exc, message |-> acc.message,
                    wrappers |-> acc.wrappers, orig |-> acc.orig, loader |-> acc.loader,
                    installs |-> installs]
        /\ task' = [task EXCEPT ![c].call = Nothing]
        /\ _schema_cache' = acc.cache

\* The thread of context c calls `target`, which an interceptor is assigned
\* to, and runs up to the test of _record_flowpoint: it has read the list and
\* evaluated `not stack or stack[-1] != name`.
Enter(c, target, fqn, input, strings) ==
    /\ binding[target] # <<>>
    /\ task[c].call = Nothing
    /\ Len(_record_flowpoint(FlowOf(c), FlowOf(c), fqn)) <= FlowDepth
    /\ task' = [task EXCEPT
                    ![c].call = Some([stage |-> "test", target |-> target, fqn |-> fqn,
                                      layers |-> binding[target], input |-> input,
                                      strings |-> strings, seen |-> FlowOf(c),
                                      flow_before |-> <<>>, reads |-> <<>>])]
    /\ UNCHANGED <<policies, installs, binding, dflt, own, bound, last, tainted_json, api,
                   _schema_cache, frames, applied, conn>>

\* os.system(cmd) or yaml.load(stream) called in context c, up to the test of
\* _record_flowpoint.  The work of the main context calls os.system only, so
\* that a "yaml.load" it finds in its list was appended by the other context.
ReadFlow(c) ==
    \/ \E cmd \in FlowCmds : Enter(c, "os.system", "os.system", cmd, <<cmd>>)
    \/ c # MainCtx /\ Enter(c, "yaml.load", "yaml.load", None, <<>>)

\* _record_flowpoint in context c from its test on: the append, by what the
\* test found, to the list as it is now, and taint_flow.set.  A call that
\* logs no record runs on to its end.
RecordFlow(c) ==
    /\ IsSome(task[c].call)
    /\ LET call == The(task[c].call)
           flow == _record_flowpoint(call.seen, FlowOf(c), call.fqn)
           appended == [call EXCEPT !.stage = "logs", !.flow_before = FlowOf(c)]
       IN  /\ call.stage = "test"
           /\ Len(flow) <= FlowDepth
           /\ SetFlow(c, flow)
           /\ IF Outcome(appended).logs = <<>>
              THEN Leave(c, appended)
              ELSE /\ task' = [task EXCEPT ![c].call = Some(appended)]
                   /\ UNCHANGED <<last, _schema_cache>>
    /\ UNCHANGED <<policies, installs, binding, tainted_json, api, frames, applied, conn>>

\* The interceptor in context c writes its next record: _get_flow reads the
\* list as it is now.  After the last record the call raises or goes on to
\* the original and returns.
LogRead(c) ==
    /\ IsSome(task[c].call)
    /\ LET call == The(task[c].call)
           logged == [call EXCEPT !.reads = Append(@, FlowOf(c))]
       IN  /\ call.stage = "logs"
           /\ IF Len(logged.reads) = Len(Outcome(logged).logs)
              THEN Leave(c, logged)
              ELSE /\ task' = [task EXCEPT ![c].call = Some(logged)]
                   /\ UNCHANGED <<last, _schema_cache>>
    /\ UNCHANGED <<policies, installs, binding, dflt, own, bound, tainted_json, api,
                   frames, applied, conn>>

\* os.system(cmd) or yaml.load(stream) called in context c before
\* apply_patches has assigned the name: the original runs
Unguarded(c) ==
    \/ binding["os.system"] = <<>> /\ OsSystemOf(c, FlowDepth, FlowCmds)
    \/ binding["yaml.load"] = <<>> /\ YamlLoadOf(c, FlowDepth, {None})

InitFlow ==
    /\ policies \in {{i} : i \in FlowPolicies}
    /\ installs = 0
    /\ binding = [t \in Targets |-> <<>>]
    /\ dflt = <<>>
    /\ own = [c \in Contexts |-> <<>>]
    /\ bound = [c \in Contexts |-> "default"]
    /\ last = NoInvocation
    /\ tainted_json = [c \in Contexts |-> Nothing]
    /\ api = NoCall
    /\ _schema_cache = <<>>
    /\ frames = [t \in Threads |-> NoFrame]
    /\ applied = <<>>
    /\ conn = Nothing
    /\ task = [c \in Contexts |-> NoTask]

\* the thread of the main context calls apply_patches before anything else;
\* the other thread runs at any time
Free(c) == c = MainCtx => installs >= 1

\* Requests and plain threads side by side while and after the application
\* installs the guard: apply_patches assignment by assignment in the main
\* thread, the binder and the handler step by step, and os.system and
\* yaml.load called from either context, a thread switch possible wherever
\* an interceptor reads or changes the flow list.
NextFlow ==
    \/ StartupStep
    \/ \E c \in Contexts : \E request \in Requests : Free(c) /\ DispatchBind(c, request)
    \/ \E c \in Contexts : Free(c) /\ DispatchResume(c)
    \/ \E c \in Contexts : Free(c) /\ HandlerStart(c, "fastapi_app.execute_command")
    \/ \E c \in Contexts : Free(c) /\ Unguarded(c)
    \/ \E c \in Contexts : Free(c) /\ ReadFlow(c)
    \/ \E c \in Contexts : RecordFlow(c)
    \/ \E c \in Contexts : LogRead(c)

SpecFlow == InitFlow /\ [][NextFlow]_vars

(***************************************************************************)
(* The binder on requests of every kind                                    *)
(***************************************************************************)

\* parsed JSON bodies: an object, a nested document, a string, a number, a list
BodyNested ==
    DictValue(<<"k", "n">>,
              <<ListValue(<<PlainStr(<<"a">>), IntValue(<<"7">>),
                            DictValue(<<"z">>, <<PlainStr(<<"b">>)>>)>>),
                NoneValue>>)
Bodies ==
    {BodyA, BodyNested, PlainStr(<<"a">>), IntValue(<<"7">>),
     ListValue(<<PlainStr(<<"a">>), ListValue(<<PlainStr(<<"b">>)>>)>>)}

\* content-type headers; <<>> when the request has none
ContentTypes ==
    {<<"application/json">>, <<"application/json", ";", "charset=utf-8">>,
     <<"Application/JSON">>, <<"text/plain">>, <<>>}

\* self.tags as configured: the default, one tag, none
TagConfigs == {MiddlewareTags, {"pii"}, {}}

BinderRequests ==
    {[content_type |-> ct, exc |-> None, body |-> b, tags |-> MiddlewareTags] :
         ct \in ContentTypes, b \in Bodies}
    \cup {[content_type |-> <<"application/json">>, exc |-> None, body |-> BodyNested,
           tags |-> tags] : tags \in TagConfigs}
    \cup {[content_type |-> ct, exc |-> "JSONDecodeError", body |-> NoneValue,
           tags |-> MiddlewareTags] : ct \in ContentTypes}
    \cup {[content_type |-> <<"application/json">>, exc |-> e, body |-> NoneValue,
           tags |-> MiddlewareTags] : e \in {"ClientDisconnect", "CancelledError"}}

\* One request after another in one context: the binder and the handler step
\* by step, and os.system called in that context at any time.
NextBinder ==
    \/ Startup
    \/ \E request \in BinderRequests : DispatchBind(MainCtx, request)
    \/ DispatchResume(MainCtx)
    \/ \E label \in HandlerLabels : HandlerStart(MainCtx, label)
    \/ OsSystemOf(MainCtx, FlowDepth, {StrV(T_a)})

\* the application of the binder specification holds the block-mode policy
InitBinder ==
    /\ InitFlow
    /\ \A i \in policies :
           PolicyTable[i] = Constructed(Doc(None, EmptyMap, BaseRequire, FALSE, SinkFqnSeq))

SpecBinder == InitBinder /\ [][NextBinder]_vars

(***************************************************************************)
(* An application that calls apply_patches again and again                 *)
(***************************************************************************)

NextInstall ==
    \/ ApplyPatches
    \/ Open(MainCtx, FlowCap)
    \/ SubprocessRun(MainCtx, FlowCap)
    \/ OsSystem(MainCtx, FlowCap)
    \/ YamlLoad(MainCtx, FlowCap)
    \/ YamlSafeLoad(MainCtx, FlowCap)
    \/ SqliteExecute(MainCtx, FlowCap)
    \/ SqliteExecutemany(MainCtx, FlowCap)
    \/ JinjaRender(MainCtx, FlowCap)
    \/ TemplateSubstitute(MainCtx, FlowCap)
    \/ RequestsGet(MainCtx, FlowCap)
    \/ RequestsPost(MainCtx, FlowCap)
    \/ Urlopen(MainCtx, FlowCap)

\* the policies of this application: required validators v_semi and v_len,
\* mode block or warn, params as mappings; and a loaded policy that requires
\* the unknown validator "ghost"
InstallPolicies ==
    {i \in PolicyRefs :
        PolicyTable[i] \in
            {Constructed(Doc(None, EmptyMap, BaseRequire, FALSE, SinkFqnSeq)),
             Constructed(Doc("warn", EmptyMap, BaseRequire, FALSE, SinkFqnSeq)),
             Loaded(Doc("warn", EmptyMap, <<"ghost">>, FALSE, SinkFqnSeq))}}

InitInstall ==
    /\ policies \in {{i} : i \in InstallPolicies}
    /\ installs = 0
    /\ binding = [t \in Targets |-> <<>>]
    /\ dflt = <<>>
    /\ own = [c \in Contexts |-> <<>>]
    /\ bound = [c \in Contexts |-> "default"]
    /\ last = NoInvocation
    /\ tainted_json = [c \in Contexts |-> Nothing]
    /\ api = NoCall
    /\ _schema_cache = <<>>
    /\ frames = [t \in Threads |-> NoFrame]
    /\ applied = <<>>
    /\ conn = Nothing
    /\ task = [c \in Contexts |-> NoTask]

SpecInstall == InitInstall /\ [][NextInstall]_vars

\* the two policies of an application that changes its policy while it runs:
\* the same sinks and validators, taken as they are (default mode) and in
\* warn mode
SwitchPolicies ==
    {i \in PolicyRefs :
        PolicyTable[i] \in
            {Constructed(Doc(None, EmptyMap, BaseRequire, FALSE, SinkFqnSeq)),
             Constructed(Doc("warn", EmptyMap, BaseRequire, FALSE, SinkFqnSeq))}}

\* an application that holds two different policies and passes either of them
\* to apply_patches, any number of times in any order
InitSwitch ==
    /\ policies = SwitchPolicies
    /\ installs = 0
    /\ binding = [t \in Targets |-> <<>>]
    /\ dflt = <<>>
    /\ own = [c \in Contexts |-> <<>>]
    /\ bound = [c \in Contexts |-> "default"]
    /\ last = NoInvocation
    /\ tainted_json = [c \in Contexts |-> Nothing]
    /\ api = NoCall
    /\ _schema_cache = <<>>
    /\ frames = [t \in Threads |-> NoFrame]
    /\ applied = <<>>
    /\ conn = Nothing
    /\ task = [c \in Contexts |-> NoTask]

SpecSwitch == InitSwitch /\ [][NextInstall]_vars

\* an application that works on a sqlite database: it holds one policy, or the
\* two policies of SwitchPolicies, calls apply_patches at any time and
\* executes SQL in every way through the connection it got from sqlite3.connect
InitSqlite ==
    /\ policies \in {{i} : i \in PolicyRefs} \cup {SwitchPolicies}
    /\ installs = 0
    /\ binding = [t \in Targets |-> <<>>]
    /\ dflt = <<>>
    /\ own = [c \in Contexts |-> <<>>]
    /\ bound = [c \in Contexts |-> "default"]
    /\ last = NoInvocation
    /\ tainted_json = [c \in Contexts |-> Nothing]
    /\ api = NoCall
    /\ _schema_cache = <<>>
    /\ frames = [t \in Threads |-> NoFrame]
    /\ applied = <<>>
    /\ conn = Nothing
    /\ task = [c \in Contexts |-> NoTask]

NextSqlite ==
    \/ ApplyPatches
    \/ SqliteConnect(MainCtx, FlowCap)
    \/ CursorExecute(MainCtx, FlowCap)
    \/ CursorExecutemany(MainCtx, FlowCap)
    \/ CursorExecutescript(MainCtx, FlowCap)
    \/ ConnectionExecute(MainCtx, FlowCap)
    \/ ConnectionExecutemany(MainCtx, FlowCap)
    \/ ConnectionExecutescript(MainCtx, FlowCap)

SpecSqlite == InitSqlite /\ [][NextSqlite]_vars

(***************************************************************************)
(* The library called directly: validate_value, load_policy, a + b         *)
(***************************************************************************)

\* regular expressions and character classes of the documents, by what they
\* match: a+ restricted to the lengths in play, aa, b, the empty pattern,
\* [ab;] and [ab']
Re_a_plus ==
    Regex(<<"a", "+">>, {<<"a">>, <<"a", "a">>, <<"a", "a", "a">>, <<"a", "a", "a", "a">>})
Re_aa == Regex(<<"a", "a">>, {<<"a", "a">>})
Re_b == Regex(<<"b">>, {<<"b">>})
Re_empty == Regex(<<>>, {<<>>})
Cs_ab_semi == {"a", "b", ";"}
Cs_ab_quote == {"a", "b", "'"}

\* a string validator with every check configured
VAll ==
    [id |-> "v_all", type |-> "string",
     params |-> [t |-> "dict",
                 v |-> [max_len |-> 3, min_len |-> 2, deny_regex |-> Re_b,
                        deny_substrings |-> << <<";">> >>,
                        allow_charset |-> Cs_ab_semi, match_regex |-> Re_aa]]]
\* one with match_regex alone
VMatch ==
    [id |-> "v_match", type |-> "string",
     params |-> [t |-> "dict", v |-> [match_regex |-> Re_a_plus]]]
\* one whose patterns and character class are empty strings
VEmpty ==
    [id |-> "v_empty", type |-> "string",
     params |-> [t |-> "dict",
                 v |-> [deny_regex |-> Re_empty, allow_charset |-> {},
                        match_regex |-> Re_empty]]]
\* one for the text of a bytes object: b denied, [ab'] allowed
VBytes ==
    [id |-> "v_bytes", type |-> "string",
     params |-> [t |-> "dict", v |-> [allow_charset |-> Cs_ab_quote]]]
\* path validators: two roots of which one lies under the other, no root, one
\* root with subdirectories allowed, a root with a quote and a null character
VRoots2 ==
    [id |-> "p_roots2", type |-> "path",
     params |-> [t |-> "dict",
                 v |-> [allowed_roots |-> << <<"/", "u">>, <<"/", "u", "/", "d">> >>,
                        deny_subdirectories |-> TRUE]]]
VOddRoots ==
    [id |-> "p_odd", type |-> "path",
     params |-> [t |-> "dict",
                 v |-> [allowed_roots |-> << <<"/", "NUL">>, <<"/", "q", "'">> >>]]]
VNoRoots ==
    [id |-> "p_noroots", type |-> "path",
     params |-> [t |-> "dict", v |-> [allowed_roots |-> <<>>]]]
VSubdirs ==
    [id |-> "p_subdirs", type |-> "path",
     params |-> [t |-> "dict", v |-> [allowed_roots |-> << <<"/", "u">> >>]]]
\* schema validators: the schema file does not exist, holds {}, holds
\* {"type": "object"}, is no JSON
VSchema ==
    [id |-> "v_schema", type |-> "json_schema",
     params |-> [t |-> "dict", v |-> [schema_ref |-> "missing.json"]]]
VSchemaAny ==
    [id |-> "v_schema_any", type |-> "json_schema",
     params |-> [t |-> "dict", v |-> [schema_ref |-> "s.json"]]]
VSchemaObject ==
    [id |-> "v_schema_object", type |-> "json_schema",
     params |-> [t |-> "dict", v |-> [schema_ref |-> "u.json"]]]
VSchemaBad ==
    [id |-> "v_schema_bad", type |-> "json_schema",
     params |-> [t |-> "dict", v |-> [schema_ref |-> "bad.json"]]]

ApiValidators ==
    <<VSemi, VLen, VSafeFilename, VPathInUploads, VAll, VMatch, VEmpty, VBytes, VRoots2,
      VOddRoots, VNoRoots, VSubdirs, VSchema, VSchemaAny, VSchemaObject, VSchemaBad>>

ApiDoc == [version |-> 1, validators |-> ApiValidators, sinks |-> <<>>]

\* Policy(...) built by the caller with each validator's params the mapping of
\* the document, under the document's keys
RECURSIVE MappingValidators(_, _)
MappingValidators(items, out) ==
    IF items = <<>> THEN out
    ELSE MappingValidators(Tail(items),
             DictSet(out, Head(items).id,
                     ValidatorDef(Head(items).id, Head(items).type,
                                  DictParams(Head(items).params.v))))

MappingPolicy(data) ==
    Return(Policy(GetOr(data, "version", 1),
                  Get(GetOr(data, "defaults", EmptyMap), "mode"),
                  MappingValidators(GetOr(data, "validators", <<>>), <<>>),
                  <<>>))

\* the three ways the application comes by a Policy of ApiDoc
Origins == {"load_policy", "constructed", "mapping"}
ApiLoaded == load_policy(ApiDoc).val
ApiConstructed == ConstructedPolicy(ApiDoc).val
ApiMapping == MappingPolicy(ApiDoc).val
ApiPolicy(origin) ==
    CASE origin = "load_policy" -> ApiLoaded
      [] origin = "constructed" -> ApiConstructed
      [] origin = "mapping" -> ApiMapping

\* the validator ids of the document by type, and one it does not have
VidsOfType(type) ==
    {ApiValidators[i].id : i \in {j \in DOMAIN ApiValidators : ApiValidators[j].type = type}}
StringVids == VidsOfType("string")
PathVids == VidsOfType("path")
JsonVids == VidsOfType("json_schema")

\* the values handed to validate_value: texts, paths, and objects that are
\* no str
TextValues ==
    {StrV(<<"a">>), StrV(<<"a", "a">>), StrV(<<"a", "a", "a">>),
     StrV(<<"a", "a", "a", "a">>), StrV(<<"b">>), StrV(<<"a", "b">>),
     StrV(<<"a", ";">>), StrV(<<";", "b">>), StrV(<<"a", "c">>), StrV(<<"c", ";">>),
     StrV(<<"a", "a", "c">>), StrV(<<"a", "NUL", "b">>), StrV(<<".", ".">>),
     StrV(<<"e", "acute">>), StrV(<<>>)}
PathValues ==
    {StrV(<<"/", "u", "/", "f">>), StrV(<<"/", "u", "/", "d", "/", "f">>),
     StrV(<<"/", "u">>), StrV(<<"/", "u", "x", "/", "f">>),
     StrV(<<"/", "u", "/", ".", ".", "/", "e", "/", "f">>),
     StrV(<<"/", "u", "/", "l", "/", "f">>),
     StrV(<<"/", "u", "/", "d", "/", ".", ".", "/", "f">>),
     OtherV("PosixPath", <<"/", "u", "/", "d">>)}
ObjectValues ==
    {BytesV(<<"a">>), ListV(<<StrV(<<"a", ";">>)>>), ListV(<<StrV(<<"a">>)>>),
     TupleV(<<StrV(<<"a", ";">>)>>), OtherV("int", <<"7">>),
     DictV(<< <<"a">> >>, <<OtherV("int", <<"1">>)>>)}
\* the calls of validate_value: every string validator on the texts and the
\* objects and on two of the paths, every path validator on the paths and on
\* some of the other values, the schema validators whose file cannot be
\* loaded and the unknown id on three values
ApiCalls ==
    (StringVids
         \X (TextValues \cup ObjectValues
                \cup {StrV(<<"/", "u", "/", "f">>), StrV(<<"/", "u", "x", "/", "f">>)}))
    \cup (PathVids
              \X (PathValues
                     \cup {StrV(<<"a">>), StrV(<<"a", "NUL", "b">>), StrV(<<>>),
                           ListV(<<StrV(<<"a">>)>>)}))
    \cup ({"v_schema", "v_schema_bad", "ghost"}
              \X {StrV(<<"a">>), StrV(<<"/", "u", "/", "f">>),
                  DictV(<< <<"a">> >>, <<OtherV("int", <<"1">>)>>)})

\* the calls with a JSON value: every schema validator and one string
\* validator on a dict, a str, a list and an int
JsonObjs ==
    {DictV(<< <<"a">> >>, <<OtherV("int", <<"1">>)>>), StrV(<<"a">>),
     ListV(<<StrV(<<"a", ";">>)>>), OtherV("int", <<"7">>)}
JsonCalls == (JsonVids \cup {"v_semi"}) \X JsonObjs

\* validate_value(policy, validator_id, value)
ValidateValueOn(calls) ==
    \E origin \in Origins : \E call \in calls :
        LET validator_id == call[1]
            value == call[2]
            r == validate_value(ApiPolicy(origin), validator_id, value, _schema_cache)
        IN  /\ api' = [op |-> "validate_value",
                       args |-> [origin |-> origin, validator_id |-> validator_id,
                                 value |-> value],
                       out |-> [exc |-> r.exc, val |-> r.val]]
            /\ _schema_cache' = r.cache
            /\ UNCHANGED <<policies, installs, binding, dflt, own, bound, last,
                           tainted_json, frames, applied, conn, task>>

ValidateValue == ValidateValueOn(ApiCalls)

\* validate_value(policy, validator_id, obj) on a JSON value
ValidateJson == ValidateValueOn(JsonCalls)

\* validate_json_by_id(policy, validator_id, obj)
ValidateJsonById ==
    \E origin \in Origins : \E call \in JsonCalls :
        LET validator_id == call[1]
            obj == call[2]
            r == validate_json_by_id(ApiPolicy(origin), validator_id, obj, _schema_cache)
        IN  /\ api' = [op |-> "validate_json_by_id",
                       args |-> [origin |-> origin, validator_id |-> validator_id,
                                 value |-> obj],
                       out |-> [exc |-> r.exc, val |-> r.val]]
            /\ _schema_cache' = r.cache
            /\ UNCHANGED <<policies, installs, binding, dflt, own, bound, last,
                           tainted_json, frames, applied, conn, task>>

\* the operands of a + b: plain and tainted strings
Operands ==
    {PlainStr(<<"p">>), PlainStr(<<>>),
     TaintedStr(<<"x">>, {"untrusted"}), TaintedStr(<<"y">>, {"http"}),
     TaintedStr(<<"z">>, {"untrusted", "http"}), TaintedStr(<<"e">>, {})}

\* a + b
Add ==
    \E a \in Operands : \E b \in Operands :
        /\ api' = [op |-> "add", args |-> [a |-> a, b |-> b], out |-> Concat(a, b)]
        /\ UNCHANGED <<policies, installs, binding, dflt, own, bound, last, tainted_json, _schema_cache, frames, applied, conn, task>>

\* validator entries a document should not have: no id, no type, an empty
\* id, a type that does not exist, params that are a list or null, a
\* json_schema entry without schema_ref or without params
BadValidators ==
    {[type |-> "string", params |-> [t |-> "dict", v |-> [max_len |-> 2]]],
     [id |-> "v", params |-> [t |-> "dict", v |-> [max_len |-> 2]]],
     [id |-> "", type |-> "string"],
     [id |-> "v", type |-> "regexp", params |-> [t |-> "dict", v |-> EmptyMap]],
     [id |-> "v", type |-> "String"],
     [id |-> "v", type |-> "string", params |-> [t |-> "list", v |-> EmptyMap]],
     [id |-> "v", type |-> "path", params |-> [t |-> "NoneType", v |-> EmptyMap]],
     [id |-> "v", type |-> "json_schema",
      params |-> [t |-> "dict", v |-> [schema |-> "s.json"]]],
     [id |-> "v", type |-> "json_schema"]}

\* the documents load_policy is called on
LoadDocs ==
    {ApiDoc, [version |-> 1], [version |-> 2, unknown |-> "x"],
     [version |-> 1, validators |-> <<VSemi, VSchema>>],
     [version |-> 1, defaults |-> [mode |-> "warn"], sinks |-> <<>>],
     [defaults |-> EmptyMap,
      sinks |-> <<SinkItem("s", "os.system", <<"v_semi">>, EmptyMap, <<>>)>>]}
    \cup {Doc(m, o, <<"v_semi">>, FALSE, <<"os.system", "builtins.open">>) :
              m \in {None, "sanitize"},
              o \in {EmptyMap, [mode |-> "warn"], [mode |-> "Block"], [mode |-> "bogus"],
                     [message |-> "denied"], [mode |-> "deny", message |-> "denied"]}}
    \cup {[version |-> 1, validators |-> <<bad>>] : bad \in BadValidators}
    \cup {[version |-> 1, validators |-> <<VSemi, bad, VLen>>,
           sinks |-> <<SinkItem("s", "os.system", <<"v_semi">>, EmptyMap, <<>>)>>] :
              bad \in BadValidators}

\* load_policy(path), data being the parsed document
LoadPolicy ==
    \E data \in LoadDocs :
        /\ api' = [op |-> "load_policy", args |-> [data |-> data], out |-> load_policy(data)]
        /\ UNCHANGED <<policies, installs, binding, dflt, own, bound, last, tainted_json, _schema_cache, frames, applied, conn, task>>

\* the objects handed to taint_recursive, and the tags
TaintObjects ==
    Bodies \cup
    {NoneValue, IntValue(<<"0">>), ListValue(<<>>), DictValue(<<>>, <<>>),
     TaintedStr(<<"x">>, {"old"}), TaintedStr(<<"x">>, {"http"}), PlainStr(<<>>),
     TupleValue(<<PlainStr(<<"a">>), IntValue(<<"7">>), PlainStr(<<"a">>)>>),
     TupleValue(<<TupleValue(<<TaintedStr(<<"x">>, {"old"}), NoneValue>>),
                  ListValue(<<DictValue(<<"k">>, <<TupleValue(<<PlainStr(<<"b">>)>>)>>)>>)>>),
     DictValue(<<"b", "a">>, <<PlainStr(<<"a">>), PlainStr(<<"b">>)>>)}
TagSets == {{}, {"untrusted"}, {"untrusted", "http"}}

\* taint_recursive(obj, *tags)
TaintRecursive ==
    \E obj \in TaintObjects : \E tags \in TagSets :
        /\ api' = [op |-> "taint_recursive", args |-> [obj |-> obj, tags |-> tags],
                   out |-> Return(taint_recursive(obj, tags))]
        /\ UNCHANGED <<policies, installs, binding, dflt, own, bound, last, tainted_json, _schema_cache, frames, applied, conn, task>>

InitApi ==
    /\ policies = {}
    /\ installs = 0
    /\ binding = [t \in Targets |-> <<>>]
    /\ dflt = <<>>
    /\ own = [c \in Contexts |-> <<>>]
    /\ bound = [c \in Contexts |-> "default"]
    /\ last = NoInvocation
    /\ tainted_json = [c \in Contexts |-> Nothing]
    /\ api = NoCall
    /\ _schema_cache = <<>>
    /\ frames = [t \in Threads |-> NoFrame]
    /\ applied = <<>>
    /\ conn = Nothing
    /\ task = [c \in Contexts |-> NoTask]

NextApi ==
    \/ ValidateValue
    \/ Add
    \/ LoadPolicy
    \/ TaintRecursive

SpecApi == InitApi /\ [][NextApi]_vars

\* an application that validates JSON values against schema files
NextJson ==
    \/ ValidateJson
    \/ ValidateJsonById

SpecJson == InitApi /\ [][NextJson]_vars

(***************************************************************************)
(* validators.py: _load_schema and its cache, called from several threads  *)
(***************************************************************************)

MaxLoads == 2

\* thread t calls _load_schema(ref): the lookup, and the return on a hit.
\* had keeps what the cache held for ref when the call was made.
LoadSchemaCall(t) ==
    \E ref \in SchemaRefs :
        /\ frames[t].pc = "out"
        /\ frames[t].loads < MaxLoads
        /\ frames' = [frames EXCEPT ![t] =
               IF CacheHit(_schema_cache, ref)
               THEN [pc |-> "out", ref |-> ref, had |-> DictGet(_schema_cache, ref),
                     schema |-> Nothing, result |-> DictGet(_schema_cache, ref),
                     exc |-> None, reads |-> 0, loads |-> frames[t].loads + 1]
               ELSE [pc |-> "read", ref |-> ref, had |-> DictGet(_schema_cache, ref),
                     schema |-> Nothing, result |-> Nothing,
                     exc |-> None, reads |-> 0, loads |-> frames[t].loads + 1]]
        /\ UNCHANGED <<policies, installs, binding, dflt, own, bound, last, tainted_json,
                       api, _schema_cache, applied, conn, task>>

\* open(ref) and json.load(f): the schema, or the exception that ends the call
LoadSchemaRead(t) ==
    /\ frames[t].pc = "read"
    /\ frames' = [frames EXCEPT ![t] =
           IF IsRaise(ReadSchema(frames[t].ref))
           THEN [@ EXCEPT !.pc = "out", !.exc = ReadSchema(frames[t].ref).exc,
                          !.reads = @ + 1]
           ELSE [@ EXCEPT !.pc = "store", !.schema = Some(ReadSchema(frames[t].ref).val),
                          !.reads = @ + 1]]
    /\ UNCHANGED <<policies, installs, binding, dflt, own, bound, last, tainted_json,
                   api, _schema_cache, applied, conn, task>>

\* v = Draft7Validator(schema); _schema_cache[ref] = v; return v
LoadSchemaStore(t) ==
    /\ frames[t].pc = "store"
    /\ _schema_cache' = DictSet(_schema_cache, frames[t].ref,
                                Draft7Validator(The(frames[t].schema), t, frames[t].loads))
    /\ frames' = [frames EXCEPT ![t] =
           [@ EXCEPT !.pc = "out",
                     !.result = Some(Draft7Validator(The(frames[t].schema), t,
                                                     frames[t].loads))]]
    /\ UNCHANGED <<policies, installs, binding, dflt, own, bound, last, tainted_json, api,
                   applied, conn, task>>

NextCache ==
    \/ \E t \in Threads : LoadSchemaCall(t)
    \/ \E t \in Threads : LoadSchemaRead(t)
    \/ \E t \in Threads : LoadSchemaStore(t)

SpecCache == InitApi /\ [][NextCache]_vars

(***************************************************************************)
(* What the latest invocation was checked against                          *)
(***************************************************************************)

\* the invocation passed through an installed interceptor
Guarded == last.layers # <<>>

\* the policy of that interceptor, as the application made it, and its SinkDef
\* for the function called
LastEntry == PolicyTable[last.layers[1]]
LastPolicy == The(LastEntry.policy)
LastSink == get_sink_for_function(LastPolicy, last.fqn)
HasSinkDef == Guarded /\ IsSome(LastSink)
LastRequire == The(LastSink).require
LastMode == EffectiveMode(LastPolicy, The(LastSink))

\* The (validator, string) pairs the invocation is to be checked against, in
\* order: validator by validator and, for each, string by string.  An open
\* contributes one string per validator when its mode is write-like and its
\* path is not a bytecode-cache path, and none otherwise.
Checks ==
    IF last.fqn = "builtins.open"
    THEN LET p == PurePath(Str(last.input.file))
         IN  IF WriteLike(last.input.mode) /\ ~IsBytecodeCache(p)
             THEN [k \in DOMAIN LastRequire |->
                       <<LastRequire[k], StrV(OpenTarget(LastRequire[k], p))>>]
             ELSE <<>>
    ELSE LET n == Len(last.strings)
         IN  [k \in 1..(Len(LastRequire) * n) |->
                  <<LastRequire[((k - 1) \div n) + 1], last.strings[((k - 1) % n) + 1]>>]

\* the invocation is one the policy is enforced on: the sink has a SinkDef
\* and, for an open, the mode is write-like and the path no bytecode-cache path
Enforcing ==
    /\ HasSinkDef
    /\ last.fqn = "builtins.open" =>
           /\ WriteLike(last.input.mode)
           /\ ~IsBytecodeCache(PurePath(Str(last.input.file)))

\* validator vid returns (False, reason) for string s
Rejects(vid, s) ==
    LET r == validate_value(LastPolicy, vid, s, _schema_cache) IN r.exc = None /\ ~r.val.ok

\* the checks that reject, by position
Rejections == {k \in DOMAIN Checks : Rejects(Checks[k][1], Checks[k][2])}

\* the records logged with a given mode
LoggedWith(mode) == {k \in DOMAIN last.logs : last.logs[k].event = "violation"
                                               /\ last.logs[k].mode = mode}

(***************************************************************************)
(* C1                                                                      *)
(***************************************************************************)

\* C1: whenever a guarded sink with a SinkDef is invoked, some required
\* validator rejects some extracted string and the effective mode is block,
\* the invocation raises PolicyViolation and the original operation is not
\* invoked.
C1_BlockRaisesPolicyViolation ==
    (HasSinkDef /\ Rejections # {} /\ LastMode = "block")
        => (last.exc = "PolicyViolation" /\ last.orig = 0)

\* the same, for policies whose validator params are mappings
C1_BlockRaisesWithMappingParams ==
    (HasSinkDef /\ LastEntry.origin = "constructed" /\ Rejections # {}
     /\ LastMode = "block")
        => (last.exc = "PolicyViolation" /\ last.orig = 0)

(***************************************************************************)
(* C2                                                                      *)
(***************************************************************************)

\* C2: an invocation that raises PolicyViolation has logged, as its latest
\* record, a record with event "violation" or "blocked" that names the sink.
C2_PolicyViolationIsLogged ==
    last.exc = "PolicyViolation"
        => /\ last.logs # <<>>
           /\ last.logs[Len(last.logs)].event \in {"violation", "blocked"}
           /\ last.logs[Len(last.logs)].sink = last.fqn

\* a blocked os.system call whose record is a "violation" record
C2_Witness ==
    /\ last.exc = "PolicyViolation"
    /\ last.fqn = "os.system"
    /\ Len(last.logs) = 1
    /\ last.logs[1].event = "violation"

(***************************************************************************)
(* C3                                                                      *)
(***************************************************************************)

\* C3: whenever the effective mode is warn and a required validator rejects
\* an extracted string, the invocation does not raise, the original operation
\* is invoked, and exactly one record with mode "warn" is logged for the
\* rejection (one for each, when several checks reject).
C3_WarnProceedsWithOneRecord ==
    (HasSinkDef /\ Rejections # {} /\ LastMode = "warn")
        => /\ last.exc = None
           /\ last.orig = 1
           /\ Cardinality(LoggedWith("warn")) = Cardinality(Rejections)

\* C3 with the count read per invocation: exactly one record, however many
\* checks reject
C3_WarnLogsExactlyOnce ==
    (HasSinkDef /\ Rejections # {} /\ LastMode = "warn" /\ last.exc = None)
        => Cardinality(LoggedWith("warn")) = 1

(***************************************************************************)
(* C4                                                                      *)
(***************************************************************************)

\* the validator id is not in policy.validators
Unknown(vid) == ~IsSome(DictGet(LastPolicy.validators, vid))

Dangling == \E k \in DOMAIN LastRequire : Unknown(LastRequire[k])

C4_WitnessWarn ==
    /\ HasSinkDef
    /\ LastMode = "warn"
    /\ Len(last.calls) >= 2
    /\ Unknown(last.calls[1].vid)
    /\ ~Unknown(last.calls[2].vid)
    /\ last.exc = None
    /\ last.orig = 1

\* in warn mode the validator after the unknown one raises: the original
\* operation is not invoked
C4_WitnessWarnRaises ==
    /\ HasSinkDef
    /\ LastMode = "warn"
    /\ Len(last.calls) >= 2
    /\ Unknown(last.calls[1].vid)
    /\ last.calls[Len(last.calls)].exc # None
    /\ last.exc # None
    /\ last.orig = 0

\* an open for reading under a require list with an unknown validator
C4_WitnessNothingToCheck ==
    /\ HasSinkDef
    /\ Dangling
    /\ last.fqn = "builtins.open"
    /\ Checks = <<>>
    /\ last.orig = 1

(***************************************************************************)
(* C5                                                                      *)
(***************************************************************************)

\* the document of the policy lists the function called in the
\* forbid_functions of its sink entry for that function
Forbidden ==
    \E i \in DOMAIN LastEntry.doc.sinks :
        LET item == LastEntry.doc.sinks[i]
        IN  /\ item.function = last.fqn
            /\ Has(item, "forbid_functions")
            /\ \E j \in DOMAIN item.forbid_functions : item.forbid_functions[j] = last.fqn

\* C5: every invocation of a sink whose entry forbids its own function logs a
\* "blocked" record and raises PolicyViolation.
C5_ForbiddenFunctionIsBlocked ==
    (Enforcing /\ Forbidden)
        => /\ \E j \in DOMAIN last.logs : last.logs[j].event = "blocked"
           /\ last.exc = "PolicyViolation"

(***************************************************************************)
(* C6                                                                      *)
(***************************************************************************)

\* what the document of the policy says for the function called: the
\* on_violation mapping of the first sink entry for it, and defaults.mode
DocItems == LastEntry.doc.sinks
DocItem ==
    DocItems[CHOOSE i \in DOMAIN DocItems :
                 /\ DocItems[i].function = last.fqn
                 /\ \A j \in 1..(i - 1) : DocItems[j].function # last.fqn]
DocOverride == GetOr(DocItem, "on_violation", EmptyMap)
DocDefaultMode == Get(GetOr(LastEntry.doc, "defaults", EmptyMap), "mode")

\* the mode as C6 states it: the sink's mode string, else the default's,
\* else block; block when the string is none of block, warn, sanitize
StatedMode ==
    LET m == IF Truthy(Get(DocOverride, "mode")) THEN DocOverride.mode
             ELSE IF Truthy(DocDefaultMode) THEN DocDefaultMode
             ELSE "block"
    IN  IF m \in ViolationMode THEN m ELSE "block"

\* the mode with the strings compared in lower case, and only the default's
\* string falling back to block
FoldedMode ==
    IF Truthy(Get(DocOverride, "mode")) THEN Lower(DocOverride.mode)
    ELSE IF Truthy(DocDefaultMode) /\ Lower(DocDefaultMode) \in ViolationMode
    THEN Lower(DocDefaultMode)
    ELSE "block"

\* the message as C6 states it, for a logged violation
StatedMessage(record) ==
    IF Truthy(Get(DocOverride, "message")) THEN <<DocOverride.message>>
    ELSE <<"violation", record.validator, ":">> \o record.msg

\* some sink entry of the document has an on_violation.mode that is, in lower
\* case, none of block, warn, sanitize
BadSinkMode(doc) ==
    \E i \in DOMAIN doc.sinks :
        LET m == Get(GetOr(doc.sinks[i], "on_violation", EmptyMap), "mode")
        IN  Truthy(m) /\ Lower(m) \notin ViolationMode

\* C6 as stated: every policy document yields a policy; every violation is
\* logged with the sink's on_violation.mode if set, else defaults.mode, else
\* block, a string that is none of block, warn, sanitize counting as block;
\* the PolicyViolation carries on_violation.message if set, else
\* "violation <vid>: <reason>".
C6_ModeAndMessageAsStated ==
    /\ \A i \in policies : PolicyTable[i].exc = None
    /\ Enforcing =>
           /\ \A j \in DOMAIN last.logs : last.logs[j].mode = StatedMode
           /\ last.exc = "PolicyViolation" =>
                  last.message = StatedMessage(last.logs[Len(last.logs)])

\* C6: a document with a sink on_violation.mode that is (in lower case) none
\* of block, warn, sanitize yields no policy: load_policy raises ValueError.
\* Otherwise every violation is logged with the sink's on_violation.mode if
\* set, else defaults.mode if it is (in lower case) one of block, warn,
\* sanitize, else block; the PolicyViolation carries on_violation.message if
\* set, else "violation <vid>: <reason>".
C6_EffectiveModeAndMessage ==
    /\ \A i \in policies : (PolicyTable[i].exc # None) <=> BadSinkMode(PolicyTable[i].doc)
    /\ Enforcing =>
           /\ \A j \in DOMAIN last.logs : last.logs[j].mode = FoldedMode
           /\ last.exc = "PolicyViolation" =>
                  last.message = StatedMessage(last.logs[Len(last.logs)])

\* a violation blocked by the sink's mode although defaults.mode is warn
C6_Witness ==
    /\ Enforcing
    /\ DocDefaultMode = "warn"
    /\ Get(DocOverride, "mode") = "block"
    /\ last.exc = "PolicyViolation"
    /\ last.logs[Len(last.logs)].mode = "block"

(***************************************************************************)
(* C7                                                                      *)
(***************************************************************************)

\* C7: once the guard is installed, every yaml.load logs a "blocked" record,
\* raises PolicyViolation and does not reach the original loader; every
\* yaml.safe_load runs no validator, does not raise PolicyViolation and loads
\* with the safe loader.
C7_YamlLoadBlockedSafeLoadSafe ==
    /\ (Guarded /\ last.fqn = "yaml.load") =>
           /\ last.exc = "PolicyViolation"
           /\ last.logs # <<>>
           /\ last.logs[Len(last.logs)].event = "blocked"
           /\ last.orig = 0
    /\ (Guarded /\ last.fqn = "yaml.safe_load") =>
           /\ last.calls = <<>>
           /\ last.exc # "PolicyViolation"
           /\ last.orig = 1
           /\ last.loader = "SafeLoader"

\* the part of C7 that is about yaml.load
C7_YamlLoadBlocked ==
    (Guarded /\ last.fqn = "yaml.load") =>
        /\ last.exc = "PolicyViolation"
        /\ last.logs # <<>>
        /\ last.logs[Len(last.logs)].event = "blocked"
        /\ last.orig = 0

(***************************************************************************)
(* C8                                                                      *)
(***************************************************************************)

\* the call of validate_value was answered with (False, reason)
Failed(call) == call.exc = None /\ ~call.ok

\* C8: the validator calls of an invocation are an initial part of its
\* checks, taken validator by validator in the order of require and, for each
\* validator, string by string in extraction order; in block mode a failed
\* call is the last call, the invocation then raises PolicyViolation with the
\* reason of the first check that rejects, and every check before it passed.
C8_ChecksInOrder ==
    Enforcing =>
        /\ Len(last.calls) <= Len(Checks)
        /\ \A k \in DOMAIN last.calls :
               /\ last.calls[k].vid = Checks[k][1]
               /\ last.calls[k].s = Checks[k][2]
        /\ LastMode = "block" =>
               /\ \A k \in DOMAIN last.calls :
                      Failed(last.calls[k]) =>
                          (k = Len(last.calls) /\ last.exc = "PolicyViolation")
               /\ last.exc = "PolicyViolation" =>
                      LET k == Len(last.calls)
                      IN  /\ k \in Rejections
                          /\ \A j \in Rejections : k <= j
                          /\ last.logs[Len(last.logs)].validator = Checks[k][1]
                          /\ last.logs[Len(last.logs)].msg
                                 = validate_value(LastPolicy, Checks[k][1], Checks[k][2],
                                                  _schema_cache).val.msg

\* a call blocked at its second check, the first validator on the second
\* string, although the second validator rejects the first string
C8_Witness ==
    /\ Enforcing
    /\ LastMode = "block"
    /\ last.exc = "PolicyViolation"
    /\ Len(last.strings) >= 2
    /\ Len(LastRequire) >= 2
    /\ Len(last.calls) = 2
    /\ last.calls[2].vid = LastRequire[1]
    /\ last.calls[2].s = last.strings[2]
    /\ Rejects(LastRequire[2], last.strings[1])

(***************************************************************************)
(* C9                                                                      *)
(***************************************************************************)

\* C9: after any number of apply_patches calls with the same policy every
\* target is bound as one call leaves it, to a single wrapper around the
\* original; a guarded call enters one interceptor, makes no more validator
\* calls than it has checks, and invokes the original at most once.
C9_InstallationIdempotent ==
    /\ installs >= 1 => \E e \in policies : binding = [t \in Targets |-> <<e>>]
    /\ Guarded =>
           /\ last.wrappers = 1
           /\ last.orig <= 1
           /\ Len(last.flow) <= Len(last.flow_before) + 1
           /\ HasSinkDef => Len(last.calls) <= Len(Checks)

\* an os.system call made after the second apply_patches, in warn mode: one
\* record, the original invoked once
C9_Witness ==
    /\ installs = 2
    /\ last.installs = 2
    /\ Guarded
    /\ last.fqn = "os.system"
    /\ Len(last.logs) = 1
    /\ last.logs[1].mode = "warn"
    /\ last.wrappers = 1
    /\ last.orig = 1

(***************************************************************************)
(* C10                                                                     *)
(***************************************************************************)

NoAdjacentEqual(stack) == \A i \in 1..(Len(stack) - 1) : stack[i] # stack[i + 1]

\* the invocation went through _record_flowpoint
Recording ==
    Guarded /\ last.fqn \notin {"builtins.open", "yaml.safe_load", "sqlite3.connect"}

\* the append of the sink's name to the list as the invocation found it
CollapsingAppend ==
    IF last.flow_before # <<>> /\ last.flow_before[Len(last.flow_before)] = last.fqn
    THEN last.flow = last.flow_before
    ELSE /\ Len(last.flow) = Len(last.flow_before) + 1
         /\ SubSeq(last.flow, 1, Len(last.flow_before)) = last.flow_before
         /\ last.flow[Len(last.flow)] = last.fqn

\* C10: no flow list has two equal adjacent entries, whatever the binder and
\* the interceptors did; the append of a sink's name leaves the list as it
\* was when its last entry is that name, and otherwise makes it one entry
\* longer, the new last entry being the name.
C10_FlowStackCollapses ==
    /\ NoAdjacentEqual(dflt)
    /\ \A c \in Contexts : NoAdjacentEqual(own[c])
    /\ Recording => CollapsingAppend

\* the same for the lists that one thread at a time appends to: the list of a
\* request, and any list when no other append fell between the test and the
\* append of _record_flowpoint
C10_CollapsesWithoutRace ==
    /\ \A c \in Contexts : NoAdjacentEqual(own[c])
    /\ (Recording /\ last.seen = last.flow_before) => CollapsingAppend

\* inside a request whose body was parsed, a second os.system call in a row:
\* the list stays as it was
C10_Witness ==
    /\ Recording
    /\ last.fqn = "os.system"
    /\ bound[last.ctx] = "own"
    /\ last.flow_before = <<"http_request", "middleware:json_parsing", "os.system">>
    /\ last.flow = last.flow_before
    /\ own[last.ctx] = last.flow

\* two threads without a binder call os.system at the same time: each finds
\* the shared list empty, each appends
C10_WitnessRace ==
    /\ Recording
    /\ last.fqn = "os.system"
    /\ bound[last.ctx] = "default"
    /\ last.seen = <<>>
    /\ last.flow_before = <<"os.system">>
    /\ dflt = <<"os.system", "os.system">>

(***************************************************************************)
(* C11                                                                     *)
(***************************************************************************)

\* the list taint_flow resolves to in context d after the step
FlowAfter(d) == IF bound'[d] = "own" THEN own'[d] ELSE dflt'

\* C11: the list handed to the work of a request, in whatever context that
\* work runs, changes only by steps of that context: by its binder, by its
\* handler, or by the append of an interceptor called there, which adds the
\* name of its sink.  An invocation made there found the list the same at the
\* test and at the append of _record_flowpoint, and each record it logged
\* carries the list as that append left it, which the list still is when the
\* invocation ends.  No step of another context changes the list.
C11_RequestIsolation ==
    [][\A d \in Contexts :
           /\ FlowAfter(d) # FlowOf(d) =>
                  \/ \E request \in Requests : DispatchBind(d, request)
                  \/ DispatchResume(d)
                  \/ \E label \in HandlerLabels : HandlerStart(d, label)
                  \/ /\ RecordFlow(d)
                     /\ FlowAfter(d) = Append(FlowOf(d), The(task[d].call).fqn)
           /\ (last' # last /\ last'.ctx = d /\ last'.layers # <<>>) =>
                  /\ last'.seen = last'.flow_before
                  /\ last'.flow = FlowAfter(d)
                  /\ \A k \in DOMAIN last'.logs :
                         last'.logs[k].taint_flow = last'.flow]_vars

\* the same for the contexts in which the binder has run: the list of such a
\* request changes only by its own binder, handler and interceptors, and the
\* records of an invocation made there carry that list
C11_BoundRequestsIsolated ==
    [][\A d \in Contexts :
           /\ (bound[d] = "own" /\ own'[d] # own[d]) =>
                  \/ \E request \in Requests : DispatchBind(d, request)
                  \/ DispatchResume(d)
                  \/ \E label \in HandlerLabels : HandlerStart(d, label)
                  \/ /\ RecordFlow(d)
                     /\ own'[d] = Append(own[d], The(task[d].call).fqn)
           /\ (last' # last /\ last'.ctx = d /\ last'.layers # <<>> /\ bound[d] = "own") =>
                  /\ last'.seen = last'.flow_before
                  /\ last'.flow = own'[d]
                  /\ \A k \in DOMAIN last'.logs :
                         last'.logs[k].taint_flow = own'[d]]_vars

\* two requests side by side, each with the labels of its own sinks only; the
\* latest invocation, in c1, logged a record
C11_Witness ==
    /\ bound["c1"] = "own" /\ bound["c2"] = "own"
    /\ own["c1"] = <<"http_request", "os.system">>
    /\ own["c2"] = <<"http_request", "middleware:json_parsing", "yaml.load">>
    /\ last.ctx = "c1"
    /\ last.logs # <<>>
    /\ last.logs[1].taint_flow = own["c1"]

\* the work of two requests done in threads that did not inherit the
\* context: the record logged in c1 carries the label appended in c2
C11_WitnessLeak ==
    /\ bound["c1"] = "default" /\ bound["c2"] = "default"
    /\ last.ctx = "c1"
    /\ last.fqn = "os.system"
    /\ last.flow_before = <<"yaml.load">>
    /\ last.logs # <<>>
    /\ last.logs[1].taint_flow = <<"yaml.load", "os.system">>

\* such a thread switched out between its append and its record: the record
\* of its os.system call carries the label the other thread appended since
C11_WitnessLateLabel ==
    /\ bound["c1"] = "default" /\ bound["c2"] = "default"
    /\ last.ctx = "c1"
    /\ last.fqn = "os.system"
    /\ last.exc = "PolicyViolation"
    /\ last.flow = <<"os.system">>
    /\ Len(last.logs) = 1
    /\ last.logs[1].taint_flow = <<"os.system", "yaml.load">>

\* the same for yaml.load
C11_WitnessLateLabelYaml ==
    /\ bound["c1"] = "default" /\ bound["c2"] = "default"
    /\ last.ctx = "c2"
    /\ last.fqn = "yaml.load"
    /\ last.flow = <<"yaml.load">>
    /\ Len(last.logs) = 1
    /\ last.logs[1].taint_flow = <<"yaml.load", "os.system">>

\* in warn mode, switched out between its two records: they carry different
\* lists
C11_WitnessTwoRecords ==
    /\ bound["c1"] = "default" /\ bound["c2"] = "default"
    /\ last.ctx = "c1"
    /\ last.fqn = "os.system"
    /\ last.exc = None
    /\ last.orig = 1
    /\ Len(last.logs) = 2
    /\ last.logs[1].taint_flow = <<"os.system">>
    /\ last.logs[2].taint_flow = <<"os.system", "yaml.load">>

\* a thread calls os.system and yaml.load while apply_patches, in another
\* thread, has assigned os.system and not yet yaml.load: os.system was
\* intercepted, yaml.load is the original, which wants a Loader
C11_WitnessHalfInstalled ==
    /\ installs = 0
    /\ last.ctx = "c2"
    /\ binding["os.system"] # <<>>
    /\ binding["yaml.load"] = <<>>
    /\ dflt = <<"os.system">>
    /\ last.fqn = "yaml.load"
    /\ last.layers = <<>>
    /\ last.exc = "TypeError"
    /\ last.logs = <<>>

(***************************************************************************)
(* C12                                                                     *)
(***************************************************************************)

\* C12: a context in which no binder has run observes the empty flow list,
\* whatever was invoked before, there or elsewhere; an invocation made in
\* such a context leaves the lists of all contexts as they were and raises
\* nothing but what the sink's checks raise.
C12_UnboundContextSeesEmptyStack ==
    /\ \A c \in Contexts : bound[c] = "default" => FlowOf(c) = <<>>
    /\ (last.ctx # None /\ bound[last.ctx] = "default") =>
           /\ last.flow_before = <<>>
           /\ \A k \in DOMAIN last.logs : last.logs[k].taint_flow = <<>>

(***************************************************************************)
(* C13                                                                     *)
(***************************************************************************)

\* the invocation was made inside a request, whose list is as it left it
InRequest == bound[last.ctx] = "own" /\ own[last.ctx] = last.flow

\* the flow list ends with the name of the sink invoked
EndsWithSink(flow) == flow # <<>> /\ flow[Len(flow)] = last.fqn

\* C13: every invocation the policy is enforced on, an open in a write-like
\* mode included, and every yaml.load, has the sink's name as the last entry
\* of the flow list, and the taint_flow of every record it logs ends with the
\* sink's name and, inside a request, starts with "http_request".
C13_SinkNameRecordedBeforeChecks ==
    (Enforcing \/ (Guarded /\ last.fqn = "yaml.load")) =>
        /\ EndsWithSink(last.flow)
        /\ \A k \in DOMAIN last.logs :
               /\ EndsWithSink(last.logs[k].taint_flow)
               /\ InRequest => last.logs[k].taint_flow[1] = "http_request"

\* C13 for the interceptors other than guarded_open
C13_RecordedByEnforce ==
    ((Enforcing /\ last.fqn # "builtins.open") \/ (Guarded /\ last.fqn = "yaml.load")) =>
        /\ EndsWithSink(last.flow)
        /\ \A k \in DOMAIN last.logs :
               /\ EndsWithSink(last.logs[k].taint_flow)
               /\ InRequest => last.logs[k].taint_flow[1] = "http_request"

(***************************************************************************)
(* C14                                                                     *)
(***************************************************************************)

\* every string of v, at any depth, is a TaintedStr with exactly these tags
RECURSIVE AllLeavesTagged(_, _)
AllLeavesTagged(v, tags) ==
    IF v.t \in {"dict", "list", "tuple"}
    THEN \A i \in DOMAIN v.items : AllLeavesTagged(v.items[i], tags)
    ELSE v.t # "str" /\ (v.t = "TaintedStr" => v.tags = tags)

\* v with every TaintedStr replaced by the plain string of the same text
RECURSIVE Untainted(_)
Untainted(v) ==
    IF v.t \in {"dict", "list", "tuple"}
    THEN [v EXCEPT !.items = [i \in DOMAIN v.items |-> Untainted(v.items[i])]]
    ELSE IF v.t = "TaintedStr" THEN [v EXCEPT !.t = "str", !.tags = {}]
    ELSE v

\* dispatch in context c has reached call_next in this step
HandsOver(c) ==
    \/ DispatchResume(c) /\ task'[c].pc = "next"
    \/ \E request \in BinderRequests : DispatchBind(c, request) /\ task'[c].pc = "next"

\* a step of dispatch in context c
BinderStep(c) ==
    \/ DispatchResume(c)
    \/ \E request \in BinderRequests : DispatchBind(c, request)

\* C14 as stated: whatever the context's list was before, dispatch hands the
\* request to the handler with the list exactly <<"http_request",
\* "middleware:json_parsing">> and tainted_json the parsed body with every
\* string leaf tagged {untrusted, http} when the content type begins with
\* application/json and the body parsed, and with the list exactly
\* <<"http_request">> and tainted_json None otherwise; no exception leaves
\* dispatch.
C14_BinderGivesFreshStack ==
    [][\A c \in Contexts :
           /\ BinderStep(c) => task'[c].exc = None
           /\ HandsOver(c) =>
                  LET request == The(task'[c].request)
                  IN  /\ bound'[c] = "own"
                      /\ IsSome(tainted_json'[c])
                      /\ IF /\ request.content_type # <<>>
                            /\ request.content_type[1] = "application/json"
                            /\ request.exc = None
                         THEN /\ own'[c] = <<"http_request", "middleware:json_parsing">>
                              /\ AllLeavesTagged(The(tainted_json'[c]),
                                                 {"untrusted", "http"})
                              /\ Untainted(The(tainted_json'[c])) = request.body
                         ELSE /\ own'[c] = <<"http_request">>
                              /\ The(tainted_json'[c]) = NoneValue]_vars

\* C14: dispatch binds the new list <<"http_request">> whatever the context's
\* list was before.  Under a content type that does not begin with
\* application/json it hands over at once, tainted_json None.  Otherwise it
\* waits for the body; while it waits the list grows only by the names of
\* sinks invoked in the request's context.  With the body it appends
\* "middleware:json_parsing" and sets tainted_json to the body, every string
\* leaf tagged with the tags of the middleware; on an Exception it leaves
\* the list as it is and sets tainted_json None; in both cases it hands
\* over.  Only CancelledError leaves dispatch.
C14_BinderBindsFreshStack ==
    [][\A c \in Contexts :
           /\ \A request \in BinderRequests :
                  DispatchBind(c, request) =>
                      /\ own'[c] = <<"http_request">>
                      /\ bound'[c] = "own"
                      /\ task'[c].exc = None
                      /\ IF /\ request.content_type # <<>>
                            /\ request.content_type[1] = "application/json"
                         THEN task'[c].pc = "json"
                         ELSE /\ task'[c].pc = "next"
                              /\ tainted_json'[c] = Some(NoneValue)
           /\ (task[c].pc = "json" /\ task'[c].pc = "json" /\ own'[c] # own[c]) =>
                  /\ last'.ctx = c
                  /\ last'.flow_before = own[c]
                  /\ own'[c] = Append(own[c], last'.fqn)
           /\ DispatchResume(c) =>
                  LET request == The(task[c].request)
                  IN  /\ bound'[c] = "own"
                      /\ IF request.exc = None
                         THEN /\ own'[c] = Append(own[c], "middleware:json_parsing")
                              /\ IsSome(tainted_json'[c])
                              /\ AllLeavesTagged(The(tainted_json'[c]), request.tags)
                              /\ Untainted(The(tainted_json'[c])) = request.body
                              /\ task'[c].pc = "next"
                              /\ task'[c].exc = None
                         ELSE IF request.exc = "CancelledError"
                         THEN /\ own'[c] = own[c]
                              /\ task'[c].pc = "out"
                              /\ task'[c].exc = "CancelledError"
                         ELSE /\ own'[c] = own[c]
                              /\ tainted_json'[c] = Some(NoneValue)
                              /\ task'[c].pc = "next"
                              /\ task'[c].exc = None]_vars

\* a request with the nested body, dispatched in the context where an earlier
\* request had left its list, and an os.system call made in its context while
\* the body was read: the string two levels down is tagged
C14_Witness ==
    /\ last.ctx = "c1"
    /\ last.flow = <<"http_request", "os.system">>
    /\ bound["c1"] = "own"
    /\ task["c1"].pc = "next"
    /\ own["c1"] = <<"http_request", "os.system", "middleware:json_parsing">>
    /\ IsSome(tainted_json["c1"])
    /\ Untainted(The(tainted_json["c1"])) = BodyNested
    /\ The(tainted_json["c1"]).items[1].items[3].items[1]
           = TaintedStr(<<"b">>, {"untrusted", "http"})

\* no sink was invoked while the body was read: the list is exactly the two
\* labels of the binder
C14_WitnessExact ==
    /\ last.ctx = None
    /\ task["c1"].pc = "next"
    /\ own["c1"] = <<"http_request", "middleware:json_parsing">>
    /\ IsSome(tainted_json["c1"])
    /\ Untainted(The(tainted_json["c1"])) = BodyNested

\* a middleware made with tags=("pii",)
C14_WitnessTags ==
    /\ task["c1"].pc = "next"
    /\ IsSome(tainted_json["c1"])
    /\ Untainted(The(tainted_json["c1"])) = BodyNested
    /\ The(tainted_json["c1"]).items[1].items[3].items[1] = TaintedStr(<<"b">>, {"pii"})

\* the task was cancelled while dispatch waited for the body
C14_WitnessCancelled ==
    /\ task["c1"].pc = "out"
    /\ task["c1"].exc = "CancelledError"
    /\ own["c1"] = <<"http_request">>
    /\ tainted_json["c1"] = Nothing


(***************************************************************************)
(* C15                                                                     *)
(***************************************************************************)

\* the mode of the open call has none of the characters w, a, x, +
ReadOnlyMode == \A i \in DOMAIN last.input.mode : last.input.mode[i] \notin {"w", "a", "x", "+"}

\* the path of the open call has a __pycache__ component or ends in .pyc
CachePath ==
    LET parts == Parts(Str(last.input.file))
        name == parts[Len(parts)]
    IN  \/ \E i \in DOMAIN parts :
               parts[i] = <<"_", "_", "p", "y", "c", "a", "c", "h", "e", "_", "_">>
        \/ /\ parts # <<>>
           /\ Len(name) >= 5
           /\ SubSeq(name, Len(name) - 3, Len(name)) = <<".", "p", "y", "c">>

\* C15: an open whose mode is not write-like, or whose path is a
\* bytecode-cache path, runs no validator, logs nothing, raises nothing and
\* reaches the original open exactly once, whatever the installed policy.
C15_OpenEnforcedOnlyForWrites ==
    (last.target = "builtins.open" /\ (ReadOnlyMode \/ CachePath)) =>
        /\ last.calls = <<>>
        /\ last.logs = <<>>
        /\ last.exc = None
        /\ last.orig = 1
        /\ last.flow = last.flow_before

\* a write of a .pyc file under __pycache__ through an interceptor whose
\* policy requires validators of builtins.open
C15_Witness ==
    /\ last.target = "builtins.open"
    /\ HasSinkDef
    /\ LastRequire # <<>>
    /\ ~ReadOnlyMode
    /\ CachePath
    /\ last.wrappers >= 1
    /\ last.orig = 1

\* a read of /u/f through such an interceptor
C15_WitnessRead ==
    /\ last.target = "builtins.open"
    /\ HasSinkDef
    /\ LastRequire # <<>>
    /\ ReadOnlyMode
    /\ ~CachePath
    /\ last.wrappers >= 1
    /\ last.orig = 1

\* enforcement does happen for the other opens: a write of a path that is not
\* a cache path, under such an interceptor, runs a validator
C15_WritesAreChecked ==
    (last.target = "builtins.open" /\ HasSinkDef /\ LastRequire # <<>>
         /\ ~ReadOnlyMode /\ ~CachePath) => last.calls # <<>>


(***************************************************************************)
(* C16                                                                     *)
(***************************************************************************)

\* the latest call was validate_value, on an id the policy has
ValidatedPresent ==
    /\ api.op = "validate_value"
    /\ IsSome(DictGet(ApiPolicy(api.args.origin).validators, api.args.validator_id))

\* C16: validate_value on a validator id present in the policy returns an
\* (ok, reason) pair for every value: it never raises.
C16_ValidateValueNeverRaises ==
    ValidatedPresent => api.out.exc = None

\* with params held as mappings validate_value returns a pair on every value,
\* the unresolvable path and the missing schema file included
C16_MappingParamsNeverRaise ==
    (ValidatedPresent /\ api.args.origin # "load_policy") => api.out.exc = None

\* during a sink invocation: what leaves an interceptor is PolicyViolation or
\* nothing, when the policy's params are mappings
C16_GuardRaisesOnlyPolicyViolation ==
    (Guarded /\ LastEntry.origin = "constructed") => last.exc \in {None, "PolicyViolation"}


(***************************************************************************)
(* C17                                                                     *)
(***************************************************************************)

\* the document's entry of the validator the latest call named
ApiItem == ApiValidators[CHOOSE i \in DOMAIN ApiValidators :
                             ApiValidators[i].id = api.args.validator_id]

\* the latest call was validate_value on a path validator of the policy made
\* in the given way, with a value that has a canonical form
ValidatedPath(origin) ==
    /\ api.op = "validate_value"
    /\ api.args.origin = origin
    /\ api.args.validator_id \in {ApiValidators[i].id : i \in DOMAIN ApiValidators}
    /\ ApiItem.type = "path"
    /\ ~IsRaise(Resolve(Str(api.args.value)))

\* the reference: the canonical path, the canonical roots of the document,
\* the roots at or above the path, and among them those the path lies
\* directly in
RefPath == Resolve(Str(api.args.value)).val
RefRoots == [i \in DOMAIN ApiItem.params.v.allowed_roots |->
                 Resolve(ApiItem.params.v.allowed_roots[i]).val]
RefDeny == GetOr(ApiItem.params.v, "deny_subdirectories", FALSE)
RefAbove == {i \in DOMAIN RefRoots :
                 /\ ~IsRaise(Resolve(ApiItem.params.v.allowed_roots[i]))
                 /\ Len(RefRoots[i]) <= Len(RefPath)
                 /\ \A k \in DOMAIN RefRoots[i] : RefPath[k] = RefRoots[i][k]}
RefDirect == {i \in RefAbove : Len(RefPath) = Len(RefRoots[i]) + 1}
RefAccepted == IF RefDeny THEN RefDirect # {} ELSE RefAbove # {}

\* the verdict the reference prescribes for the latest call
AsReference ==
    /\ api.out.exc = None
    /\ IF RefRoots = <<>>
       THEN api.out.val = Reject(<<"no allowed roots configured">>)
       ELSE IF RefAccepted THEN api.out.val.ok
       ELSE /\ ~api.out.val.ok
            /\ IF RefAbove = {}
               THEN api.out.val.msg[1] = "path not under allowed roots:"
               ELSE \E i \in RefAbove :
                        api.out.val.msg
                            = <<"subdirectories disallowed under">> \o PathStr(RefRoots[i])

\* C17: on a path validator of the loaded policy the verdict of validate_value
\* is the reference's: accepted iff some canonical allowed root is the path or
\* an ancestor of it and, with deny_subdirectories, the path's parent is
\* exactly that root; the three rejections carry their messages.
C17_PathDecisionEqualsReference ==
    ValidatedPath("load_policy") => AsReference

\* with the roots held in a mapping under the key _validate_path reads
\* (must_be_under), and no allowed root above another one, the verdict is the
\* reference's
C17_ReferenceWithMustBeUnder ==
    (ValidatedPath("constructed") /\ api.args.validator_id # "p_roots2") => AsReference

\* with roots /u and /u/d and deny_subdirectories the first root above the
\* path gives the verdict: /u/d/f, directly in /u/d, is rejected
C17_FirstRootDecides ==
    (ValidatedPath("constructed") /\ api.args.validator_id = "p_roots2"
         /\ RefPath = << <<"u">>, <<"d">>, <<"f">> >>) =>
        /\ RefAccepted
        /\ api.out.val = Reject(<<"subdirectories disallowed under", "/", "u">>)

\* roots held in a mapping under the key allowed_roots are not read
C17_AllowedRootsKeyIsNotRead ==
    ValidatedPath("mapping") => api.out.val = Reject(<<"no allowed roots configured">>)


(***************************************************************************)
(* C18                                                                     *)
(***************************************************************************)

\* the tags of an operand: a plain string carries none
TagsOf(x) == IF x.t = "TaintedStr" THEN x.tags ELSE {}

\* C18: for string operands a and b of which at least one is a TaintedStr,
\* a + b is a TaintedStr with the text of both and the union of their tags.
C18_ConcatUnionsTags ==
    (api.op = "add" /\ "TaintedStr" \in {api.args.a.t, api.args.b.t}) =>
        /\ api.out.exc = None
        /\ api.out.val.t = "TaintedStr"
        /\ api.out.val.v = api.args.a.v \o api.args.b.v
        /\ api.out.val.tags = TagsOf(api.args.a) \cup TagsOf(api.args.b)

\* the same with the TaintedStr on the left, where TaintedStr.__add__ runs
C18_TaintedLeftUnionsTags ==
    (api.op = "add" /\ api.args.a.t = "TaintedStr") =>
        /\ api.out.exc = None
        /\ api.out.val.t = "TaintedStr"
        /\ api.out.val.v = api.args.a.v \o api.args.b.v
        /\ api.out.val.tags = TagsOf(api.args.a) \cup TagsOf(api.args.b)

\* a plain string on the left gives a plain string, whatever the right
\* operand carries
C18_PlainLeftLosesTags ==
    (api.op = "add" /\ api.args.a.t = "str") =>
        api.out.val = PlainStr(api.args.a.v \o api.args.b.v)


(***************************************************************************)
(* C19                                                                     *)
(***************************************************************************)

\* a validator entry the loader is to reject
MalformedValidator(it) ==
    \/ ~Has(it, "id") \/ it.id = ""
    \/ ~Has(it, "type")
    \/ it.type \notin {"string", "path", "json_schema"}
    \/ (Has(it, "params") /\ it.params.t # "dict")
    \/ (it.type = "json_schema"
        /\ (~Has(it, "params") \/ ~Has(it.params.v, "schema_ref")))

\* a sink entry the loader is to reject: its on_violation.mode is set and is,
\* in lower case, none of block, warn, sanitize
MalformedSink(item) ==
    /\ Has(item, "on_violation")
    /\ Has(item.on_violation, "mode")
    /\ Lower(item.on_violation.mode) \notin {"block", "warn", "sanitize"}

Malformed(data) ==
    \/ /\ Has(data, "validators")
       /\ \E i \in DOMAIN data.validators : MalformedValidator(data.validators[i])
    \/ /\ Has(data, "sinks")
       /\ \E i \in DOMAIN data.sinks : MalformedSink(data.sinks[i])

\* C19: load_policy raises on a document with a malformed validator or sink
\* entry and returns a Policy otherwise; a document without validators (sinks)
\* loads with an empty validators (sinks) mapping; without defaults.mode the
\* mode applied to a sink that sets none is block.
C19_LoaderRejectsMalformed ==
    api.op = "load_policy" =>
        IF Malformed(api.args.data) THEN IsRaise(api.out)
        ELSE /\ ~IsRaise(api.out)
             /\ ~Has(api.args.data, "validators") => api.out.val.validators = <<>>
             /\ ~Has(api.args.data, "sinks") => api.out.val.sinks = <<>>
             /\ (~Has(api.args.data, "defaults") \/ ~Has(api.args.data.defaults, "mode")) =>
                    EffectiveMode(api.out.val, SinkDef("s", "os.system", <<>>, Nothing))
                        = "block"

\* a json_schema entry without schema_ref between two well-formed entries has
\* made load_policy raise
C19_Witness ==
    /\ api.op = "load_policy"
    /\ Has(api.args.data, "validators")
    /\ Len(api.args.data.validators) = 3
    /\ Get(api.args.data.validators[2], "type") = "json_schema"
    /\ ~Has(api.args.data.validators[2], "params")
    /\ api.out.exc = "ValueError: json_schema requires schema_ref"

\* the document that has a version only has been loaded
C19_WitnessEmpty ==
    /\ api.op = "load_policy"
    /\ api.args.data = [version |-> 1]
    /\ api.out = Return(Policy(1, None, <<>>, <<>>))


(***************************************************************************)
(* C20                                                                     *)
(***************************************************************************)

\* the latest call was validate_value on a string validator of the policy
ValidatedString ==
    /\ api.op = "validate_value"
    /\ api.args.validator_id \in {ApiValidators[i].id : i \in DOMAIN ApiValidators}
    /\ ApiItem.type = "string"

\* the checks of the document's entry, in the stated order, each TRUE when it
\* is configured (a pattern or character class that is the empty string
\* counts as not configured) and the normalized string s fails it; and the
\* reasons they give
RefFails(s, p) ==
    << Has(p, "max_len") /\ Len(s) > p.max_len,
       Has(p, "min_len") /\ Len(s) < p.min_len,
       Has(p, "deny_regex") /\ p.deny_regex.src # <<>> /\ ReSearch(p.deny_regex, s),
       Has(p, "deny_substrings")
           /\ \E i \in DOMAIN p.deny_substrings : Contains(p.deny_substrings[i], s),
       Has(p, "allow_charset") /\ p.allow_charset # {}
           /\ ~CharsetFullmatch(p.allow_charset, s),
       Has(p, "match_regex") /\ p.match_regex.src # <<>>
           /\ ~ReFullmatch(p.match_regex, s) >>
RefReasons ==
    <<"length>", "length<", "matches forbidden pattern", "contains forbidden substring",
      "contains disallowed characters", "regex mismatch">>

\* the verdict is that of the first failing check, and ok when none fails
AsStated(fails) ==
    /\ api.out.exc = None
    /\ IF \A k \in DOMAIN fails : ~fails[k] THEN api.out.val = Accept
       ELSE /\ ~api.out.val.ok
            /\ \E k \in DOMAIN fails :
                   /\ fails[k]
                   /\ \A j \in 1..(k - 1) : ~fails[j]
                   /\ api.out.val.msg[1] = RefReasons[k]

\* C20: validate_value on a string validator, its params a mapping under the
\* keys max_len, min_len, deny_regex, deny_substrings, allow_charset and
\* match_regex, returns the reason of the first failing check in that order,
\* 'regex mismatch' for a string that passes the others and does not fully
\* match match_regex, and (True, 'ok') only if every configured check passes.
C20_StringChecksInOrder ==
    (ValidatedString /\ api.args.origin = "mapping") =>
        AsStated(RefFails(_normalize_text(Str(api.args.value)), ApiItem.params.v))

\* with the pattern held in a mapping under the key _validate_string reads
\* (regex), order and reasons are as stated
C20_OrderWithRegexKey ==
    (ValidatedString /\ api.args.origin = "constructed") =>
        AsStated(RefFails(_normalize_text(Str(api.args.value)), ApiItem.params.v))

\* a pattern held in a mapping under the key match_regex is not checked: the
\* verdict is that of the other checks
C20_MatchRegexKeyIsNotRead ==
    (ValidatedString /\ api.args.origin = "mapping") =>
        AsStated(SubSeq(RefFails(_normalize_text(Str(api.args.value)), ApiItem.params.v),
                        1, 5))


(***************************************************************************)
(* C21                                                                     *)
(***************************************************************************)

\* the path of the open call as written, its last component, and the
\* components of its canonical form
OpenedText == PathText(PurePath(Str(last.input.file)))
OpenedBasename ==
    LET text == Str(last.input.file)
        slashes == {i \in DOMAIN text : text[i] = "/"}
        from == IF slashes = {} THEN 0 ELSE CHOOSE i \in slashes : \A j \in slashes : j <= i
    IN  SubSeq(text, from + 1, Len(text))
OpenedCanonical == Resolve(Str(last.input.file)).val

\* the latest invocation is an enforced write-like open
EnforcedWrite == last.target = "builtins.open" /\ Enforcing

\* the string validator vid of an open is to be applied to
StatedTarget(vid) == IF vid = "safe_filename" THEN OpenedBasename ELSE OpenedText

\* the path leaves the upload root /u of path_in_uploads, which the sink
\* requires, and the mode that applies is block
EscapesUploads ==
    /\ EnforcedWrite
    /\ \E k \in DOMAIN LastRequire : LastRequire[k] = "path_in_uploads"
    /\ LastMode = "block"
    /\ (OpenedCanonical = <<>> \/ OpenedCanonical[1] # <<"u">>)

\* C21: the validator calls of a write-like open are, in the order of
\* require, one call per validator, on the basename for safe_filename and on
\* the full path for every other id; a write whose path leaves the upload
\* root is blocked: PolicyViolation is raised with the message of the first
\* failing validator and the original open is not reached.
C21_OpenTargetsAndTraversalBlocked ==
    /\ EnforcedWrite =>
           /\ Len(last.calls) <= Len(LastRequire)
           /\ \A k \in DOMAIN last.calls :
                  /\ last.calls[k].vid = LastRequire[k]
                  /\ last.calls[k].s = StrV(StatedTarget(LastRequire[k]))
    /\ EscapesUploads =>
           /\ last.exc = "PolicyViolation"
           /\ last.orig = 0
           /\ Failed(last.calls[Len(last.calls)])
           /\ \A k \in 1..(Len(last.calls) - 1) : ~Failed(last.calls[k])
           /\ last.message
                  = <<"violation", last.calls[Len(last.calls)].vid, ":">>
                        \o last.logs[Len(last.logs)].msg

\* the same for the policies whose params are mappings
C21_TargetsAndTraversalWithMappingParams ==
    (Guarded /\ LastEntry.origin = "constructed") => C21_OpenTargetsAndTraversalBlocked


(***************************************************************************)
(* C22                                                                     *)
(***************************************************************************)

\* res is obj with the same shape, every string leaf a tainted string of the
\* same text whose tags include the given ones, every other leaf as it was;
\* is_tainted tells the string leaves from the others
RECURSIVE TaintedAs(_, _, _)
TaintedAs(obj, res, tags) ==
    IF obj.t \in {"dict", "list", "tuple"}
    THEN /\ res.t = obj.t
         /\ res.v = obj.v
         /\ ~is_tainted(res)
         /\ Len(res.items) = Len(obj.items)
         /\ \A i \in DOMAIN obj.items : TaintedAs(obj.items[i], res.items[i], tags)
    ELSE IF obj.t \in {"str", "TaintedStr"}
    THEN /\ is_tainted(res)
         /\ res.v = obj.v
         /\ tags \subseteq res.tags
    ELSE /\ res = obj
         /\ ~is_tainted(res)

\* C22: the result of taint_recursive(obj, tags) has the shape of obj (type,
\* length, order, keys), a tainted string carrying the tags in place of every
\* string at any depth, and every other leaf unchanged.
C22_TaintRecursivePreservesShape ==
    api.op = "taint_recursive" =>
        /\ api.out.exc = None
        /\ TaintedAs(api.args.obj, api.out.val, api.args.tags)

\* the tuple whose strings lie two and four levels down has been tainted with
\* both tags: the tainted string keeps its old tag, None stays None
C22_Witness ==
    /\ api.op = "taint_recursive"
    /\ api.args.tags = {"untrusted", "http"}
    /\ api.args.obj.t = "tuple"
    /\ Len(api.args.obj.items) = 2
    /\ api.out.val.items[1].items[1] = TaintedStr(<<"x">>, {"old", "untrusted", "http"})
    /\ api.out.val.items[1].items[2] = NoneValue
    /\ api.out.val.items[2].items[1].items[1].items[1]
           = TaintedStr(<<"b">>, {"untrusted", "http"})


(***************************************************************************)
(* C23                                                                     *)
(***************************************************************************)

\* the references whose file holds a schema, and that schema
Loadable == {"s.json", "u.json"}
SchemaOf(ref) == IF ref = "s.json" THEN <<"S">> ELSE <<"U">>

\* the entries the cache holds for a reference
EntriesFor(ref) == {i \in DOMAIN _schema_cache : _schema_cache[i][1] = ref}

\* the call of thread t has returned a validator
ReturnedValidator(t) == frames[t].pc = "out" /\ frames[t].loads > 0 /\ frames[t].exc = None

\* C23: in every interleaving of _load_schema calls, a call that returns
\* returns a validator of the schema of its reference, and the cache then
\* holds exactly one entry for the reference, a validator of that schema; a
\* reference whose load fails has no entry; a call made when the cache held
\* an entry returns that entry and does not read the file.
C23_SchemaCacheUnderConcurrency ==
    /\ \A t \in Threads :
           /\ ReturnedValidator(t) =>
                  /\ IsSome(frames[t].result)
                  /\ The(frames[t].result).schema = SchemaOf(frames[t].ref)
                  /\ frames[t].ref \in Loadable
                  /\ Cardinality(EntriesFor(frames[t].ref)) = 1
           /\ IsSome(frames[t].had) =>
                  /\ frames[t].reads = 0
                  /\ frames[t].result = frames[t].had
           /\ frames[t].exc # None =>
                  /\ frames[t].ref \notin Loadable
                  /\ frames[t].result = Nothing
    /\ \A ref \in SchemaRefs :
           /\ Cardinality(EntriesFor(ref)) <= 1
           /\ ref \notin Loadable => EntriesFor(ref) = {}
           /\ \A i \in EntriesFor(ref) : _schema_cache[i][2].schema = SchemaOf(ref)

\* both threads found the cache empty, read s.json and built a validator
\* each: two objects of the same schema; the cache holds one entry, the
\* validator of t1, which stored last
C23_Witness ==
    /\ \A t \in Threads :
           /\ frames[t].pc = "out" /\ frames[t].loads = 1 /\ frames[t].ref = "s.json"
           /\ frames[t].had = Nothing /\ frames[t].reads = 1
           /\ frames[t].result = Some(Draft7Validator(<<"S">>, t, 1))
    /\ _schema_cache = << <<"s.json", Draft7Validator(<<"S">>, "t1", 1)>> >>

\* a call made after that returned the cached validator without reading
C23_WitnessHit ==
    /\ frames["t2"].pc = "out" /\ frames["t2"].loads = 2 /\ frames["t2"].ref = "s.json"
    /\ frames["t2"].reads = 0
    /\ frames["t2"].had = Some(Draft7Validator(<<"S">>, "t1", 1))
    /\ frames["t2"].result = frames["t2"].had


(***************************************************************************)
(* C24                                                                     *)
(***************************************************************************)

\* the policy passed to the most recent apply_patches call
LatestApplied == applied[Len(applied)]

\* the module attributes behind the sinks open, subprocess.run, os.system,
\* sqlite, jinja2 render, string.Template.substitute, requests.get/post, urlopen
PolicySinks == Targets \ {"yaml.safe_load", "yaml.load"}

\* the latest invocation was made after the most recent apply_patches call
AfterLatestApply == Guarded /\ last.installs = installs /\ last.target \in PolicySinks

\* C24: after any sequence of apply_patches calls, with the same or with
\* different policies, every guarded sink is bound to one interceptor that
\* holds the policy passed to the most recent call, and an invocation made
\* after that call is enforced under that policy.
C24_LatestPolicyOnEverySink ==
    /\ installs >= 1 => \A t \in PolicySinks : binding[t] = <<LatestApplied>>
    /\ AfterLatestApply => last.layers = <<LatestApplied>>

\* the sinks apply_patches assigns unconditionally follow the latest call
C24_ReboundSinksFollowLatest ==
    /\ installs >= 1 => \A t \in RebindTargets : binding[t] = <<LatestApplied>>
    /\ AfterLatestApply /\ last.target \in RebindTargets => last.layers = <<LatestApplied>>

\* the sinks apply_patches assigns only over the original keep the policy of
\* the first call
C24_PatchOnceSinksKeepFirst ==
    /\ installs >= 1 => \A t \in PatchOnceTargets : binding[t] = <<applied[1]>>
    /\ AfterLatestApply /\ last.target \in PatchOnceTargets => last.layers = <<applied[1]>>

\* apply_patches(p1), apply_patches(p2) with p2 # p1, then os.system
C24_WitnessRebound ==
    /\ Len(applied) = 2
    /\ applied[1] # applied[2]
    /\ AfterLatestApply
    /\ last.fqn = "os.system"
    /\ last.layers = <<applied[2]>>

\* apply_patches(p1), apply_patches(p2) with p2 # p1, then requests.get
C24_WitnessPatchOnce ==
    /\ Len(applied) = 2
    /\ applied[1] # applied[2]
    /\ AfterLatestApply
    /\ last.fqn = "requests.get"
    /\ last.layers = <<applied[1]>>


(***************************************************************************)
(* C25                                                                     *)
(***************************************************************************)

\* the methods that execute SQL through a connection or one of its cursors
SqlMethods ==
    {"sqlite3.Cursor.execute", "sqlite3.Cursor.executemany", "sqlite3.Cursor.executescript",
     "sqlite3.Connection.execute", "sqlite3.Connection.executemany",
     "sqlite3.Connection.executescript"}

\* the methods GuardedCursor defines
GuardedSqlMethods == {"sqlite3.Cursor.execute", "sqlite3.Cursor.executemany"}

\* the latest invocation executed SQL through a connection that the guarded
\* sqlite3.connect returned
SqlExecuted == Guarded /\ last.target = "sqlite3.connect" /\ last.fqn \in SqlMethods

\* the sink whose requirements apply to the method
SqliteSink(method) ==
    IF method \in {"sqlite3.Cursor.executemany", "sqlite3.Connection.executemany"}
    THEN "sqlite3.Cursor.executemany" ELSE "sqlite3.Cursor.execute"

\* the SQL string of the invocation, as the validators see it
SqlString == StrV(Str(last.input.sql))

\* C25: whichever method executes SQL through a connection of the guarded
\* sqlite3.connect, the SQL string and nothing else (no bound parameter) is
\* handed to the enforcement, and when the sqlite sink requires validators the
\* statement reaches the real connection or cursor only after a validator
\* was applied to the SQL string.
C25_EverySqlPathEnforced ==
    SqlExecuted =>
        /\ last.strings = <<SqlString>>
        /\ \A k \in DOMAIN last.calls : last.calls[k].s = SqlString
        /\ LET sink == get_sink_for_function(LastPolicy, SqliteSink(last.fqn))
           IN  (last.orig >= 1 /\ IsSome(sink) /\ The(sink).require # <<>>) =>
                   last.calls # <<>>

\* the same for cursor.execute and cursor.executemany alone
C25_CursorExecuteIsEnforced ==
    (SqlExecuted /\ last.fqn \in GuardedSqlMethods) =>
        /\ last.strings = <<SqlString>>
        /\ \A k \in DOMAIN last.calls : last.calls[k].s = SqlString
        /\ LET sink == get_sink_for_function(LastPolicy, last.fqn)
           IN  (last.orig >= 1 /\ IsSome(sink) /\ The(sink).require # <<>>) =>
                   last.calls # <<>>

\* executescript and the connection-level shortcuts run the statement with no
\* string checked
C25_OtherPathsAreNotEnforced ==
    (SqlExecuted /\ last.fqn \notin GuardedSqlMethods) =>
        /\ last.strings = <<>>
        /\ last.calls = <<>>
        /\ last.logs = <<>>
        /\ last.exc = None
        /\ last.orig = 1

\* cursor.execute("a", ("a;",)) under a policy that rejects ";": the
\* parameter is not checked and the statement runs
C25_WitnessParameters ==
    /\ SqlExecuted
    /\ last.fqn = "sqlite3.Cursor.execute"
    /\ last.input.parameters = <<StrV(T_semi)>>
    /\ last.calls # <<>>
    /\ last.exc = None
    /\ last.orig = 1

\* a connection keeps the policy that was in force when sqlite3.connect
\* returned it: apply_patches(p1), sqlite3.connect, apply_patches(p2) with
\* p2 # p1, then cursor.execute on that connection is enforced under p1
C25_WitnessHeldConnection ==
    /\ Len(applied) = 2
    /\ applied[1] # applied[2]
    /\ last.installs = 2
    /\ last.fqn = "sqlite3.Cursor.execute"
    /\ conn = Some(<<applied[1]>>)
    /\ last.layers = <<applied[1]>>
    /\ binding["sqlite3.connect"] = <<applied[2]>>

\* a connection made before apply_patches is a plain sqlite3 connection:
\* cursor.execute("a;") on it after apply_patches runs with no check
C25_WitnessEarlyConnection ==
    /\ installs >= 1
    /\ last.installs = installs
    /\ conn = Some(<<>>)
    /\ last.fqn = "sqlite3.Cursor.execute"
    /\ last.input.sql = StrV(T_semi)
    /\ last.layers = <<>>
    /\ last.calls = <<>>
    /\ last.orig = 1

\* connection.executescript("a;") under a policy whose sqlite sink rejects
\* ";" in block mode: the script runs
C25_WitnessUnguarded ==
    /\ SqlExecuted
    /\ last.fqn = "sqlite3.Connection.executescript"
    /\ last.input.sql = StrV(T_semi)
    /\ IsSome(get_sink_for_function(LastPolicy, "sqlite3.Cursor.execute"))
    /\ The(get_sink_for_function(LastPolicy, "sqlite3.Cursor.execute")).require = BaseRequire
    /\ last.orig = 1

====
